---------------------------- MODULE Spec2Model ----------------------------
(***************************************************************************)
(* Source-collection and retrieval-augmented content pipeline.             *)
(*                                                                         *)
(* Part I models EnhancedPlantSpider (search_serpapi,                      *)
(* _filter_relevant_results, extract_plant_info, collect_plant_sources) in *)
(* its two variants: flask_app/research_v3/Spider.py ("v3") and            *)
(* FlaskApp/services/v4/Spider.py ("v4").                                  *)
(* Part II models RAGSystem (build_index, retrieve, _validate_retrieval,   *)
(* generate_context, query) of flask_app/research_v3/RagSys.py.            *)
(* Part III models EnhancedPlantArticleGenerator (generate_full_article    *)
(* and its five section methods) of flask_app/research_v3/ImgSearch.py     *)
(* ("ImgSearch") and flask_app/research_v3/ArtGen.py ("ArtGen").           *)
(*                                                                         *)
(* Conventions.  Scores that the code keeps as floats with two decimals    *)
(* are integers in hundredths.  A text (title, snippet, plant name) is a   *)
(* sequence of lower-cased words and `x in text` is a contiguous-word      *)
(* match.  A URL is a record [host, id, ext, seg]; substring tests on a    *)
(* host are tables over the hosts of the model.  Similarities are exact    *)
(* fractions; the rounding of floats is not modelled.                      *)
(***************************************************************************)
EXTENDS Integers, Sequences, FiniteSets, TLC

VARIABLES
    variant,          \* "v3" or "v4": which Spider.py is running
    max_sources_arg,  \* max_sources as supplied by the caller / configuration
    max_sources,      \* self.max_sources
    pc,               \* position of the collection request
    results,          \* search_serpapi: candidates gathered by the tiers
    search_results,   \* collect_plant_sources: list returned by search_serpapi
    pos,              \* collect_plant_sources: index of the next candidate
    sources,          \* collect_plant_sources: accepted records
    processed_urls,   \* collect_plant_sources: URLs already attempted
    domain_counts,    \* collect_plant_sources: accepted records per host
    trace,            \* outbound requests and sleeps, in order
    rag_index,        \* RAGSystem.index: None, or the vectors the FAISS index holds
    rag_texts,        \* RAGSystem.texts
    rag_metadata,     \* RAGSystem.metadata
    generator,        \* RAGSystem.generator: "None" or "loaded"
    strict_mode,      \* RAGSystem.strict_mode
    confidence_threshold, \* RAGSystem.confidence_threshold, a fraction
    built,            \* the texts and metadata passed to the last build_index call
    dropped,          \* the texts the index held before the last build_index call
                      \* that were not passed to that call
    out,              \* what the last RAGSystem call returned
    gen,              \* EnhancedPlantArticleGenerator: which module, rag_system given
                      \* or None, fetch_images, include_front_matter
    research_data,    \* generate_full_article: the records it is called with
    art_pc,           \* position of the article generation
    images,           \* generate_full_article: images, padded with None
    sections,         \* generate_full_article: the sections generated so far
    art_log,          \* image requests and RAG queries of the generation, in order
    document          \* what generate_full_article returned

spiderVars == <<variant, max_sources_arg, max_sources, pc, results, search_results,
                pos, sources, processed_urls, domain_counts, trace>>
ragVars == <<rag_index, rag_texts, rag_metadata, generator, strict_mode,
             confidence_threshold, built, dropped, out>>
artVars == <<gen, research_data, art_pc, images, sections, art_log, document>>
vars == <<variant, max_sources_arg, max_sources, pc, results, search_results,
          pos, sources, processed_urls, domain_counts, trace,
          rag_index, rag_texts, rag_metadata, generator, strict_mode,
          confidence_threshold, built, dropped, out,
          gen, research_data, art_pc, images, sections, art_log, document>>

(***************************************************************************)
(* Bounds of the model.                                                    *)
(***************************************************************************)
MaxSupplied == 2      \* max_sources values supplied: 1..MaxSupplied
NAcZa == 6            \* pages of up.ac.za in the long tier-1 response
NKew == 4             \* pages of kew.org in the tier-3 response
NSanbi == 4           \* pages of www.sanbi.org in the tier-3 response of that host
MaxFetchErrors == 2   \* failed fetches the network produces within one request

(***************************************************************************)
(* Generic helpers.                                                        *)
(***************************************************************************)
Range(s) == {s[i] : i \in 1..Len(s)}

Max2(a, b) == IF a >= b THEN a ELSE b

Min2(a, b) == IF a <= b THEN a ELSE b

\* Python `word in text` for a single word
HasWord(text, w) == \E i \in 1..Len(text) : text[i] = w

\* Python `phrase in text` for a phrase of several words
HasPhrase(text, phrase) ==
    \E i \in 0..(Len(text) - Len(phrase)) :
        \A j \in 1..Len(phrase) : text[i + j] = phrase[j]

\* Python s[:n]
Take(s, n) == SubSeq(s, 1, Min2(n, Len(s)))


(***************************************************************************)
(* Part I.  The world the spider sees: hosts, URLs, pages.                 *)
(***************************************************************************)
PlantName == <<"aloe", "ferox">>

Hosts == {"up.ac.za", "herbs.co.za", "www.sanbi.org", "kew.org",
          "garden.example.com", "pinterest.com"}

\* Python `'.za' in domain` on the hosts of the model
ContainsDotZa(host) == host \in {"up.ac.za", "herbs.co.za"}

\* Python `'sanbi' in domain` on the hosts of the model
ContainsSanbi(host) == host \in {"www.sanbi.org"}

\* urlparse(url).netloc
Netloc(url) == url.host

Url(h, i, e, s) == [host |-> h, id |-> i, ext |-> e, seg |-> s]

\* one entry of SerpAPI's organic_results
Organic(h, i, e, s, t, sn) == [link |-> Url(h, i, e, s), title |-> t, snippet |-> sn]

TitleExact == <<"aloe", "ferox", "plant">>
TitleGenus == <<"aloe", "care">>
TitleOther == <<"home">>
SnippetOther == <<"welcome">>

\* the text a fetch of the page yields (already stripped):
\* len = number of characters, terms = groups of marker words it contains
Content(n, ts) == [len |-> n, terms |-> ts]

WebContent(url) ==
    CASE url.host = "up.ac.za" /\ url.id = 1 -> Content(1200, {"botanical", "cultivation"})
      [] url.host = "up.ac.za" /\ url.id = 3 -> Content(400, {"ecology"})
      [] url.host = "up.ac.za" -> Content(300, {"cultivation"})
      [] url.host = "herbs.co.za" /\ url.id = 1 -> Content(120, {"cultivation"})
      [] url.host = "herbs.co.za" -> Content(200, {})
      [] url.host = "www.sanbi.org" -> Content(1100, {"botanical"})
      [] url.host = "kew.org" /\ url.id = 4 -> Content(60, {})
      [] url.host = "kew.org" /\ url.id = 3 -> Content(500, {"description"})
      [] url.host = "kew.org" -> Content(1500, {"botanical"})
      [] OTHER -> Content(250, {"cultivation"})

(***************************************************************************)
(* What the search engine may answer to each tier: a failure of the        *)
(* request, or a list of organic results.                                  *)
(***************************************************************************)
Resp(organic) == [ok |-> TRUE, organic |-> organic]

Fail == [ok |-> FALSE, organic |-> <<>>]

AcZaResp(n) ==
    [i \in 1..n |-> Organic("up.ac.za", i, IF i = 2 THEN ".pdf" ELSE ".html", "",
                            IF i = 3 THEN TitleGenus ELSE TitleExact, SnippetOther)]

ZaResp ==
    <<Organic("up.ac.za", 1, ".html", "", TitleExact, SnippetOther),
      Organic("herbs.co.za", 1, ".html", "", TitleGenus, SnippetOther),
      Organic("herbs.co.za", 2, ".txt", "", TitleOther, SnippetOther)>>

KewResp(n) ==
    [i \in 1..n |-> Organic("kew.org", i, ".html", IF i = 1 THEN "/plant/" ELSE "",
                            IF i = 4 THEN TitleOther ELSE TitleExact, <<"aloe">>)]

OtherResp ==
    <<Organic("www.sanbi.org", 1, ".html", "/species/", TitleExact, SnippetOther),
      Organic("garden.example.com", 1, ".html", "", TitleOther, SnippetOther),
      Organic("garden.example.com", 2, ".html", "", TitleGenus, <<"garden">>),
      Organic("pinterest.com", 1, ".html", "", TitleExact, SnippetOther),
      Organic("garden.example.com", 3, ".jpg", "", TitleExact, SnippetOther),
      Organic("kew.org", 1, ".html", "/plant/", TitleExact, <<"aloe">>)>>

\* a tier-3 response of pages of www.sanbi.org
SanbiResp ==
    [i \in 1..NSanbi |-> Organic("www.sanbi.org", i, ".html", "/species/", TitleExact, SnippetOther)]

Tier1Menu == {Fail, Resp(<<>>), Resp(AcZaResp(2)), Resp(AcZaResp(NAcZa))}

Tier2Menu == {Fail, Resp(<<>>), Resp(ZaResp)}

Tier3Menu == {Fail, Resp(<<>>), Resp(KewResp(NKew) \o OtherResp), Resp(SanbiResp)}

(***************************************************************************)
(* EnhancedPlantSpider: pure functions.                                    *)
(***************************************************************************)
MinSources == 20

\* __init__: self.max_sources
InitMaxSources(v, arg) == IF v = "v3" THEN Max2(MinSources, arg) ELSE arg

UnsupportedExtensions == {".doc", ".xls", ".zip", ".jpg", ".png", ".mp4"}

\* is_supported_document(url) -> <<is_supported, doc_type>>
is_supported_document(url) ==
    IF url.ext = ".pdf" \/ url.seg = "/pdf/" THEN <<TRUE, "pdf">>
    ELSE IF url.ext = ".txt" THEN <<TRUE, "text">>
    ELSE IF url.ext \in UnsupportedExtensions THEN <<FALSE, "unsupported">>
    ELSE <<TRUE, "html">>

Candidate(r, prio) ==
    [url |-> r.link, title |-> r.title, snippet |-> r.snippet,
     doc_type |-> is_supported_document(r.link)[2], priority |-> prio]

\* the loop of search_serpapi over one tier's organic results; the first
\* tier appends every supported result, the later tiers skip known URLs
RECURSIVE AppendTier(_, _, _, _)
AppendTier(res, organic, prio, dedup) ==
    IF organic = <<>> THEN res
    ELSE LET r == Head(organic)
             known == \E i \in 1..Len(res) : res[i].url = r.link
             keep == is_supported_document(r.link)[1] /\ ~(dedup /\ known)
         IN AppendTier(IF keep THEN Append(res, Candidate(r, prio)) ELSE res,
                       Tail(organic), prio, dedup)

SkipDomains == {"pinterest.com", "youtube.com", "amazon.com", "ebay.com"}

\* mutant: no URL is taken for a denylisted one
IsSkipped_Never(url) == FALSE

\* any(skip in url.lower() for skip in skip_domains)
IsSkipped(url) == url.host \in SkipDomains

\* domain_reliability, in hundredths, for the keys the hosts of the model meet
DomainReliability == [k \in {"up.ac.za", "sanbi.org", "kew.org"} |->
                        CASE k = "up.ac.za" -> 98 [] k = "sanbi.org" -> 98 [] OTHER -> 95]

\* the key of domain_reliability the code finds for a host, "" if none:
\* v3 takes the first key that is a substring of the host, v4 the host itself
TrustedKey(v, host) ==
    IF v = "v3"
    THEN CASE host = "up.ac.za" -> "up.ac.za"
           [] host = "www.sanbi.org" -> "sanbi.org"
           [] host = "kew.org" -> "kew.org"
           [] OTHER -> ""
    ELSE IF host \in DOMAIN DomainReliability THEN host ELSE ""

\* the keys k of domain_reliability with '.za' in k or 'sanbi' in k
SouthAfricanKeys == {"up.ac.za", "sanbi.org"}

PlantKeywords == {"plant", "botanical", "species", "cultivation", "growing", "care", "garden"}

SpecificSegs == {"/plant/", "/species/", "/wiki/", "/flora/"}

RECURSIVE TermScore(_, _, _)
TermScore(terms, title, snippet) ==
    IF terms = <<>> THEN 0
    ELSE (IF HasWord(title, Head(terms)) THEN 3 ELSE 0)
         + (IF HasWord(snippet, Head(terms)) THEN 1 ELSE 0)
         + TermScore(Tail(terms), title, snippet)

\* the relevance score _filter_relevant_results gives one candidate
RelevanceScore(v, c, plant_name) ==
    LET genus == IF plant_name = <<>> THEN "" ELSE plant_name[1]
        key == TrustedKey(v, Netloc(c.url))
        keyIsSA == key \in SouthAfricanKeys
    IN (CASE c.priority = "high" -> 25 [] c.priority = "medium" -> 15 [] OTHER -> 0)
       + (IF c.doc_type = "pdf" THEN 5 ELSE 0)
       + (IF HasPhrase(c.title, plant_name) \/ HasPhrase(c.snippet, plant_name) THEN 10 ELSE 0)
       + (IF genus # "" /\ (HasWord(c.title, genus) \/ HasWord(c.snippet, genus)) THEN 5 ELSE 0)
       + TermScore(plant_name, c.title, c.snippet)
       + Cardinality({k \in PlantKeywords : HasWord(c.title, k) \/ HasWord(c.snippet, k)})
       + (IF key = "" THEN 0 ELSE IF keyIsSA THEN 12 ELSE 5)
       + (IF c.url.seg \in SpecificSegs THEN 3 ELSE 0)

\* list.sort(key=score, reverse=True) on <<score, item>> pairs: stable
\* a pair goes after the pairs of higher score and after the earlier pairs
\* of its own score
SortDesc(pairs) ==
    LET place(i) == 1 + Cardinality({j \in 1..Len(pairs) :
                                        \/ pairs[j][1] > pairs[i][1]
                                        \/ pairs[j][1] = pairs[i][1] /\ j < i})
    IN [k \in 1..Len(pairs) |-> pairs[CHOOSE i \in 1..Len(pairs) : place(i) = k]]

\* the loop of _filter_relevant_results: scored_results
RECURSIVE ScoredResults(_, _, _, _)
ScoredResults(v, res, plant_name, seen_urls) ==
    IF res = <<>> THEN <<>>
    ELSE LET c == Head(res)
         IN IF c.url \in seen_urls \/ IsSkipped(c.url)
            THEN ScoredResults(v, Tail(res), plant_name, seen_urls)
            ELSE <<<<RelevanceScore(v, c, plant_name), c>>>>
                 \o ScoredResults(v, Tail(res), plant_name, seen_urls \cup {c.url})

\* mutant: `score >= 0` for `score > 0`
_filter_relevant_results_KeepZero(v, res, plant_name) ==
    LET sorted == SortDesc(ScoredResults(v, res, plant_name, {}))
        kept == SelectSeq(sorted, LAMBDA p : p[1] >= 0)
    IN [i \in 1..Len(kept) |-> kept[i][2]]

_filter_relevant_results(v, res, plant_name) ==
    LET sorted == SortDesc(ScoredResults(v, res, plant_name, {}))
        kept == SelectSeq(sorted, LAMBDA p : p[1] > 0)
    IN [i \in 1..Len(kept) |-> kept[i][2]]


(***************************************************************************)
(* EnhancedPlantSpider: extraction of one candidate.                       *)
(***************************************************************************)
\* extract_pdf_content / extract_text_file: <<>> is None.  A server answers
\* with Content-Type application/pdf exactly for its .pdf files.
extract_pdf_content(url, fetch) ==
    IF fetch = "error" \/ url.ext # ".pdf" THEN <<>>
    ELSE IF WebContent(url).len > 50 THEN <<WebContent(url)>> ELSE <<>>

extract_text_file(url, fetch) ==
    IF fetch = "error" THEN <<>>
    ELSE IF WebContent(url).len > 50 THEN <<WebContent(url)>> ELSE <<>>

_calculate_reliability(v, domain, content) ==
    LET key == TrustedKey(v, domain)
        base == IF key = "" THEN 50 ELSE DomainReliability[key]
    IN Min2(100, base + (IF "botanical" \in content.terms THEN 5 ELSE 0)
                      + (IF content.len > 1000 THEN 3 ELSE 0))

\* mutant: the two upper levels change places
_get_reliability_level_Swapped(score) ==
    IF score >= 95 THEN "high"
    ELSE IF score >= 85 THEN "very_high"
    ELSE IF score >= 75 THEN "medium"
    ELSE "low"

_get_reliability_level(score) ==
    IF score >= 95 THEN "very_high"
    ELSE IF score >= 85 THEN "high"
    ELSE IF score >= 75 THEN "medium"
    ELSE "low"

_classify_content_type(content) ==
    IF "botanical" \in content.terms THEN "botanical_reference"
    ELSE IF "cultivation" \in content.terms THEN "cultivation_guide"
    ELSE IF "ecology" \in content.terms THEN "ecological_information"
    ELSE IF "description" \in content.terms THEN "plant_description"
    ELSE "general_information"

\* extract_plant_info(url, doc_type): <<>> is None, else <<Source>>.
\* fetch is what the network does to the request: "ok" or "error".
extract_plant_info(v, url, doc_type, fetch) ==
    LET content == CASE doc_type = "pdf" -> extract_pdf_content(url, fetch)
                     [] doc_type = "text" -> extract_text_file(url, fetch)
                     [] OTHER -> IF fetch = "error" THEN <<>> ELSE <<WebContent(url)>>
    IN IF fetch = "error" THEN <<>>
       ELSE IF content = <<>> THEN <<>>
       ELSE IF content[1].len < 100 THEN <<>>
       ELSE LET domain == Netloc(url)
                score == _calculate_reliability(v, domain, content[1])
            IN <<[text |-> content[1],
                  metadata |-> [reliability |-> _get_reliability_level(score),
                                url |-> url,
                                domain |-> domain,
                                content_type |-> _classify_content_type(content[1]),
                                document_type |-> doc_type,
                                is_south_african |-> ContainsDotZa(domain) \/ ContainsSanbi(domain)],
                  reliability_score |-> score]>>

_get_rag_sort_score(metadata) ==
    LET base == CASE metadata.reliability = "very_high" -> 100
                  [] metadata.reliability = "high" -> 80
                  [] metadata.reliability = "medium" -> 60
                  [] OTHER -> 40
        bonus == CASE metadata.content_type = "botanical_reference" -> 20
                   [] metadata.content_type = "plant_description" -> 15
                   [] metadata.content_type = "cultivation_guide" -> 10
                   [] metadata.content_type = "ecological_information" -> 10
                   [] OTHER -> 0
    IN Min2(150, base + (IF metadata.is_south_african THEN 25 ELSE 0) + bonus
                 + (IF metadata.document_type = "pdf" THEN 5 ELSE 0))

\* mutant: records of equal score come out in reverse extraction order
SortSources_TiesReversed(srcs) ==
    LET rev == [i \in 1..Len(srcs) |-> srcs[Len(srcs) + 1 - i]]
        sorted == SortDesc([i \in 1..Len(rev) |-> <<_get_rag_sort_score(rev[i].metadata), rev[i]>>])
    IN [i \in 1..Len(sorted) |-> sorted[i][2]]

\* mutant: the final sort is missing
SortSources_Unsorted(srcs) == srcs

\* sources.sort(key=_get_rag_sort_score, reverse=True)
SortSources(srcs) ==
    LET sorted == SortDesc([i \in 1..Len(srcs) |-> <<_get_rag_sort_score(srcs[i].metadata), srcs[i]>>])
    IN [i \in 1..Len(sorted) |-> sorted[i][2]]

\* mutant: the cap test lets one more record through (`>` for `>=`)
MaxPerDomain_Loose(domain) == IF ContainsDotZa(domain) THEN 6 ELSE 4

\* max_per_domain = 5 if '.za' in domain else 3
MaxPerDomain(domain) == IF ContainsDotZa(domain) THEN 5 ELSE 3

\* domain_counts.get(domain, 0)
CountOf(counts, domain) == IF domain \in DOMAIN counts THEN counts[domain] ELSE 0

\* d[k] = v on a dict
DictSet(d, k, val) == [x \in DOMAIN d \cup {k} |-> IF x = k THEN val ELSE d[x]]


(***************************************************************************)
(* EnhancedPlantSpider: one collection request, collect_plant_sources,     *)
(* as a state machine.  pc: "search1" -> "search2" -> "search3" ->         *)
(* "extract" -> "done"; at "done" `sources` is the returned list.          *)
(***************************************************************************)
NoUrl == Url("", 0, "", "")

\* entries of trace: a search request of a tier (with the number of
\* candidates gathered when it is issued and whether it succeeded), a sleep,
\* the fetch of a candidate (with what came of it)
SearchEvent(tier, gathered, resp) ==
    [ev |-> "search", tier |-> tier, gathered |-> gathered, url |-> NoUrl,
     outcome |-> IF resp.ok THEN "ok" ELSE "failed"]

SleepEvent == [ev |-> "sleep", tier |-> 0, gathered |-> 0, url |-> NoUrl, outcome |-> ""]

FetchEvent(url, outcome) ==
    [ev |-> "fetch", tier |-> 0, gathered |-> 0, url |-> url, outcome |-> outcome]

\* what the network may do to the next fetch
FetchOutcomes(tr) ==
    IF Cardinality({i \in 1..Len(tr) : tr[i].outcome = "error"}) < MaxFetchErrors
    THEN {"ok", "error"}
    ELSE {"ok"}

SpiderInit ==
    /\ variant \in {"v3", "v4"}
    /\ max_sources_arg \in 1..MaxSupplied
    /\ max_sources = InitMaxSources(variant, max_sources_arg)
    /\ pc = "search1"
    /\ results = <<>>
    /\ search_results = <<>>
    /\ pos = 1
    /\ sources = <<>>
    /\ processed_urls = {}
    /\ domain_counts = <<>>
    /\ trace = <<>>

\* search_serpapi's except branch: return [], and collect_plant_sources
\* returns [] in turn
SearchFailed ==
    /\ pc' = "done"
    /\ search_results' = <<>>
    /\ UNCHANGED <<results, pos, sources, processed_urls, domain_counts>>

\* mutant: the filtered list is returned whole
FilterRank_Whole(res) ==
    /\ results' = res
    /\ search_results' = _filter_relevant_results(variant, res, PlantName)
    /\ pc' = IF search_results' = <<>> THEN "done" ELSE "extract"
    /\ UNCHANGED <<pos, sources, processed_urls, domain_counts>>

\* search_serpapi from "Filter and rank by relevance" to its return, and
\* collect_plant_sources up to the start of its loop
FilterRank(res) ==
    /\ results' = res
    /\ search_results' = Take(_filter_relevant_results(variant, res, PlantName), max_sources + 5)
    /\ pc' = IF search_results' = <<>> THEN "done" ELSE "extract"
    /\ UNCHANGED <<pos, sources, processed_urls, domain_counts>>

\* mutant: `<=` for `<`
NeedThirdSearch_Le(res, max) == Len(res) <= max

\* `if len(results) < self.max_sources` before the third search
NeedThirdSearch(res, max) == Len(res) < max

\* mutant: `>` for `>=`
GlobalCapReached_Gt(srcs, max) == Len(srcs) > max

\* `if len(sources) >= self.max_sources: break`
GlobalCapReached(srcs, max) == Len(srcs) >= max

\* `if source and len(source.text.strip()) > 150`
Accepted(source) == source # <<>> /\ source[1].text.len > 150

\* what the loop body does to sources after an extraction
KeepSource(srcs, source) ==
    IF Accepted(source)
    THEN Append(srcs, [text |-> source[1].text, metadata |-> source[1].metadata])
    ELSE srcs

\* mutant: the count of the domain is never incremented
CountSource_Never(counts, domain, source) == counts

\* mutant: the count is incremented outside the `if`
CountSource_Always(counts, domain, source) == DictSet(counts, domain, counts[domain] + 1)

\* what the loop body does to domain_counts after an extraction
CountSource(counts, domain, source) ==
    IF Accepted(source) THEN DictSet(counts, domain, counts[domain] + 1) ELSE counts

\* first search: only .ac.za domains
SearchTier1 ==
    /\ pc = "search1"
    /\ \E resp \in Tier1Menu :
         /\ trace' = Append(trace, SearchEvent(1, Len(results), resp))
         /\ IF ~resp.ok THEN SearchFailed
            ELSE /\ results' = AppendTier(<<>>, resp.organic, "high", FALSE)
                 /\ pc' = "search2"
                 /\ UNCHANGED <<search_results, pos, sources, processed_urls, domain_counts>>
    /\ UNCHANGED <<variant, max_sources_arg, max_sources>>
    /\ UNCHANGED ragVars
    /\ UNCHANGED artVars

\* mutant: the second search follows the first without time.sleep(1)
SearchTier2_NoSleep ==
    /\ pc = "search2"
    /\ \E resp \in Tier2Menu :
         /\ trace' = Append(trace, SearchEvent(2, Len(results), resp))
         /\ IF ~resp.ok THEN SearchFailed
            ELSE /\ results' = AppendTier(results, resp.organic, "medium", TRUE)
                 /\ pc' = "search3"
                 /\ UNCHANGED <<search_results, pos, sources, processed_urls, domain_counts>>
    /\ UNCHANGED <<variant, max_sources_arg, max_sources>>
    /\ UNCHANGED ragVars
    /\ UNCHANGED artVars

\* second search: general .za domains
SearchTier2 ==
    /\ pc = "search2"
    /\ \E resp \in Tier2Menu :
         /\ trace' = trace \o <<SleepEvent, SearchEvent(2, Len(results), resp)>>
         /\ IF ~resp.ok THEN SearchFailed
            ELSE /\ results' = AppendTier(results, resp.organic, "medium", TRUE)
                 /\ pc' = "search3"
                 /\ UNCHANGED <<search_results, pos, sources, processed_urls, domain_counts>>
    /\ UNCHANGED <<variant, max_sources_arg, max_sources>>
    /\ UNCHANGED ragVars
    /\ UNCHANGED artVars

\* third search: international sources, when len(results) < max_sources
SearchTier3 ==
    /\ pc = "search3"
    /\ NeedThirdSearch(results, max_sources)
    /\ \E resp \in Tier3Menu :
         /\ trace' = trace \o <<SleepEvent, SearchEvent(3, Len(results), resp)>>
         /\ IF ~resp.ok THEN SearchFailed
            ELSE FilterRank(AppendTier(results, resp.organic, "low", TRUE))
    /\ UNCHANGED <<variant, max_sources_arg, max_sources>>
    /\ UNCHANGED ragVars
    /\ UNCHANGED artVars

\* the third search is not needed
SkipTier3 ==
    /\ pc = "search3"
    /\ ~NeedThirdSearch(results, max_sources)
    /\ FilterRank(results)
    /\ UNCHANGED <<variant, max_sources_arg, max_sources, trace>>
    /\ UNCHANGED ragVars
    /\ UNCHANGED artVars

\* one iteration of `for result in search_results`
ExtractStep ==
    /\ pc = "extract"
    /\ pos <= Len(search_results)
    /\ ~GlobalCapReached(sources, max_sources)
    /\ LET result == search_results[pos]
           url == result.url
           doc_type == result.doc_type
           domain == Netloc(url)
           counts0 == DictSet(domain_counts, domain, CountOf(domain_counts, domain))
       IN IF url \in processed_urls
          THEN UNCHANGED <<sources, processed_urls, domain_counts, trace>>
          ELSE IF counts0[domain] >= MaxPerDomain(domain)
          THEN /\ domain_counts' = counts0
               /\ UNCHANGED <<sources, processed_urls, trace>>
          ELSE /\ processed_urls' = processed_urls \cup {url}
               /\ \E fetch \in FetchOutcomes(trace) :
                    LET source == extract_plant_info(variant, url, doc_type, fetch)
                        accepted == Accepted(source)
                        outcome == IF fetch = "error" THEN "error"
                                   ELSE IF source = <<>> THEN "none"
                                   ELSE IF accepted THEN "accepted" ELSE "rejected"
                    IN /\ sources' = KeepSource(sources, source)
                       /\ domain_counts' = CountSource(counts0, domain, source)
                       /\ trace' = trace \o <<FetchEvent(url, outcome), SleepEvent>>
    /\ pos' = pos + 1
    /\ UNCHANGED <<variant, max_sources_arg, max_sources, pc, results, search_results>>
    /\ UNCHANGED ragVars
    /\ UNCHANGED artVars

\* the loop ends (break on the global cap, or candidates exhausted):
\* sort and return
ExtractDone ==
    /\ pc = "extract"
    /\ (pos > Len(search_results) \/ GlobalCapReached(sources, max_sources))
    /\ sources' = SortSources(sources)
    /\ pc' = "done"
    /\ UNCHANGED <<variant, max_sources_arg, max_sources, results, search_results,
                   pos, processed_urls, domain_counts, trace>>
    /\ UNCHANGED ragVars
    /\ UNCHANGED artVars

\* no RAGSystem takes part in a collection request
RagIdle ==
    /\ rag_index = [none |-> TRUE, vectors |-> <<>>]
    /\ rag_texts = <<>>
    /\ rag_metadata = <<>>
    /\ generator = "None"
    /\ strict_mode = TRUE
    /\ confidence_threshold = [num |-> 3, den |-> 5]
    /\ built = [texts |-> <<>>, metadata |-> <<>>]
    /\ dropped = {}
    /\ out = [op |-> "none"]

\* no article is being generated
ArtIdle ==
    /\ gen = [variant |-> "ImgSearch", rag_system |-> FALSE, fetch_images |-> FALSE,
              include_front_matter |-> TRUE]
    /\ research_data = <<>>
    /\ art_pc = "idle"
    /\ images = <<>>
    /\ sections = <<>>
    /\ art_log = <<>>
    /\ document = [returned |-> FALSE, front_matter |-> <<>>, image_section |-> FALSE,
                   body |-> <<>>]

CollectInit == SpiderInit /\ RagIdle /\ ArtIdle

CollectNext ==
    \/ SearchTier1
    \/ SearchTier2
    \/ SearchTier3
    \/ SkipTier3
    \/ ExtractStep
    \/ ExtractDone

\* one collection request of the spider
SpecCollect == CollectInit /\ [][CollectNext]_vars

\* the request runs on: the interpreter takes the next step of the one
\* thread, and every network call returns or raises within its timeout
SpecCollectLive == SpecCollect /\ WF_vars(CollectNext)


(***************************************************************************)
(* Properties of the collection request.                                   *)
(***************************************************************************)
\* number of accepted records of a host
AcceptedOn(h) == Cardinality({i \in 1..Len(sources) : sources[i].metadata.domain = h})

\* candidates of a host the loop has not attempted
Unattempted(h) ==
    {i \in 1..Len(search_results) :
        Netloc(search_results[i].url) = h /\ search_results[i].url \notin processed_urls}

FetchEvents(tr) == {i \in 1..Len(tr) : tr[i].ev = "fetch"}

SearchEvents(tr) == {i \in 1..Len(tr) : tr[i].ev = "search"}

\* C1: at every step of the extract loop and in the returned list a host
\* without '.za' has at most 3 accepted records, a host with '.za' at most 5
C1_PerDomainCap ==
    \A h \in Hosts :
        AcceptedOn(h) <= (IF h \in {"up.ac.za", "herbs.co.za"} THEN 5 ELSE 3)

\* both caps are met and in each case a further candidate of the host was left out
C1_Witness ==
    /\ pc = "done"
    /\ AcceptedOn("up.ac.za") = 5 /\ Unattempted("up.ac.za") # {}
    /\ AcceptedOn("kew.org") = 3 /\ Unattempted("kew.org") # {}

\* C2 as stated: the returned list is never longer than the supplied max_sources
C2_SuppliedCap == pc = "done" => Len(sources) <= max_sources_arg

\* the cap the code enforces: the supplied value in v4, at least 20 in v3
EnforcedCap == IF variant = "v3" /\ max_sources_arg < 20 THEN 20 ELSE max_sources_arg

\* C2 amended: the number of records never exceeds the cap the code enforces,
\* and every fetch is issued while fewer than that many have been accepted
C2_EnforcedCap ==
    /\ Len(sources) <= EnforcedCap
    /\ \A i \in FetchEvents(trace) :
          Cardinality({j \in 1..(i - 1) : trace[j].outcome = "accepted"}) < EnforcedCap

\* the loop stopped on the global cap with candidates left over
C2_Witness ==
    /\ pc = "done"
    /\ Len(sources) = EnforcedCap
    /\ pos <= Len(search_results)
    /\ \E h \in Hosts : Unattempted(h) # {}

\* C8: a candidate whose extraction fails or yields None adds no record, leaves
\* its host's count as it was and leaves the loop running at the next
\* candidate; the returned list holds every record accepted by a fetch
C8_FailureSkipped ==
    /\ [][(pc = "extract" /\ Len(trace') > Len(trace)
             /\ trace'[Len(trace') - 1].outcome \in {"error", "none"})
          => /\ sources' = sources
             /\ \A h \in Hosts : CountOf(domain_counts', h) = CountOf(domain_counts, h)
             /\ pc' = "extract"
             /\ pos' = pos + 1
             /\ search_results' = search_results]_vars
    /\ [](pc = "done" =>
            \A i \in FetchEvents(trace) :
                trace[i].outcome = "accepted" =>
                    \E k \in 1..Len(sources) : sources[k].metadata.url = trace[i].url)

\* a request that saw an error and a None, with records accepted before and after
C8_Witness ==
    /\ pc = "done"
    /\ \E a, e, n, b \in FetchEvents(trace) :
          /\ a < e /\ a < n /\ e < b /\ n < b
          /\ trace[a].outcome = "accepted" /\ trace[b].outcome = "accepted"
          /\ trace[e].outcome = "error" /\ trace[n].outcome = "none"
          /\ \E k \in 1..Len(sources) : sources[k].metadata.url = trace[a].url
          /\ \E k \in 1..Len(sources) : sources[k].metadata.url = trace[b].url

\* C9: when the request of a tier fails the later tiers are still issued, and
\* what search_serpapi returns is the filtered, ranked list of the candidates
\* gathered by the tiers that succeeded
C9_TierFailureTolerated ==
    pc \in {"extract", "done"} =>
        /\ \E i \in SearchEvents(trace) : trace[i].tier = 2
        /\ search_results = Take(_filter_relevant_results(variant, results, PlantName), max_sources + 5)

\* the tiers of the search requests issued so far, in order
RECURSIVE TiersIssued(_)
TiersIssued(tr) ==
    IF tr = <<>> THEN <<>>
    ELSE IF Head(tr).ev = "search" THEN <<Head(tr).tier>> \o TiersIssued(Tail(tr))
    ELSE TiersIssued(Tail(tr))

\* C10 as stated: the tiers are issued in the order 1, 2, 3 and every tier
\* after the first only while fewer than max_sources candidates are gathered
C10_EveryTierConditional ==
    /\ TiersIssued(trace) = [i \in 1..Len(TiersIssued(trace)) |-> i]
    /\ \A i \in SearchEvents(trace) : trace[i].tier > 1 => trace[i].gathered < max_sources

\* C10 amended: the tiers are issued in the order 1, 2, 3; the second is issued
\* whenever the first succeeded, whatever the count; the third is issued if
\* and only if, after the second succeeded, fewer than max_sources candidates
\* are gathered
C10_ThirdTierConditional ==
    /\ TiersIssued(trace) = [i \in 1..Len(TiersIssued(trace)) |-> i]
    /\ Len(TiersIssued(trace)) <= 3
    /\ \A i \in SearchEvents(trace) : trace[i].tier = 3 => trace[i].gathered < max_sources
    /\ (pc \notin {"search1", "search2"} /\ trace[1].outcome = "ok") => Len(TiersIssued(trace)) >= 2
    /\ (pc \in {"extract", "done"}
          /\ (\A i \in SearchEvents(trace) : trace[i].outcome = "ok")
          /\ Len(TiersIssued(trace)) = 2) => Len(results) >= max_sources

\* the second tier was issued with max_sources candidates already gathered,
\* and the third tier was left out
C10_Witness ==
    /\ pc \in {"extract", "done"}
    /\ TiersIssued(trace) = <<1, 2>>
    /\ \E i \in SearchEvents(trace) : trace[i].tier = 2 /\ trace[i].gathered >= max_sources


(***************************************************************************)
(* Part II.  RAGSystem.                                                    *)
(*                                                                         *)
(* Texts and queries are names; the embedding model maps each to a point   *)
(* of a grid with step 1/2, so that a squared L2 distance is n/4 for a     *)
(* natural n.  A distance is [max, n]: max marks the FLT_MAX with which    *)
(* FAISS fills the places for which it has no neighbour.  A similarity is  *)
(* num/den + tiny * e, where e = 1/(1 + FLT_MAX) is smaller than every     *)
(* difference of two fractions of the model.                               *)
(***************************************************************************)
MaxRecs == 3          \* length of the lists passed to build_index
MaxK == 3             \* k of retrieve and query: 1..MaxK
MaxDocs == 3          \* length of the lists given to _validate_retrieval alone

min_retrieved_docs == 2

max_context_length == 2000

TextIds == {"t1", "t2", "t3"}

Queries == {"q1", "q2"}

\* SentenceTransformer.encode, in half units
Embed(x) ==
    CASE x = "t1" -> <<0, 0>>
      [] x = "t2" -> <<1, 0>>
      [] x = "t3" -> <<2, 2>>
      [] x = "q1" -> <<0, 0>>
      [] OTHER -> <<1, 1>>

\* len(text)
TextLen(t) == CASE t = "t1" -> 400 [] t = "t2" -> 1500 [] OTHER -> 2100

\* the metadata that goes with a text; len(metadata['source']) is 10
MetaOf(t) == [source |-> t]

SourceLen(source) == 10

\* what the language model may do with a prompt: produce a text, or raise
LlmOutcomes == {"generated", "raises"}

RECURSIVE GCD(_, _)
GCD(a, b) == IF b = 0 THEN a ELSE GCD(b, a % b)

Distance(n) == [max |-> FALSE, n |-> n]

FltMax == [max |-> TRUE, n |-> 0]

DistLE(a, b) == IF b.max THEN TRUE ELSE IF a.max THEN FALSE ELSE a.n <= b.n

\* squared L2 distance of two embeddings, in quarters
L2(u, v) == Distance((u[1] - v[1]) * (u[1] - v[1]) + (u[2] - v[2]) * (u[2] - v[2]))

Sim(a, b, t) == [num |-> a \div GCD(a, b), den |-> b \div GCD(a, b), tiny |-> t]

\* 1 / (1 + distance)
Similarity(d) == IF d.max THEN Sim(0, 1, 1) ELSE Sim(4, 4 + d.n, 0)

\* similarity >= threshold, for a threshold fraction
SimGE(s, thr) == s.num * thr.den >= thr.num * s.den

SimAdd(s, t) == Sim(s.num * t.den + t.num * s.den, s.den * t.den, s.tiny + t.tiny)

\* x['similarity'] > y['similarity']
SimGT(s, t) ==
    \/ s.num * t.den > t.num * s.den
    \/ s.num * t.den = t.num * s.den /\ s.tiny > t.tiny

RECURSIVE SimSum(_)
SimSum(docs) == IF docs = <<>> THEN Sim(0, 1, 0) ELSE SimAdd(Head(docs).similarity, SimSum(Tail(docs)))

\* np.mean([d['similarity'] for d in docs]), docs not empty
MeanSimilarity(docs) ==
    LET total == SimSum(docs)
    IN [num |-> total.num, den |-> total.den * Len(docs), tiny |-> total.tiny]

\* IndexFlatL2.search(query_embedding, k): the k nearest stored vectors as
\* <<distance, idx>> with idx from 0, nearest first, equal distances by
\* ascending idx; padded to k entries with <<FLT_MAX, -1>>
RECURSIVE FaissSearch(_, _, _, _)
FaissSearch(vectors, q, k, taken) ==
    IF k = 0 THEN <<>>
    ELSE LET left == (1..Len(vectors)) \ taken
         IN IF left = {} THEN <<<<FltMax, -1>>>> \o FaissSearch(vectors, q, k - 1, taken)
            ELSE LET best == CHOOSE i \in left :
                                \A j \in left :
                                    \/ ~DistLE(L2(vectors[j], q), L2(vectors[i], q))
                                    \/ (L2(vectors[j], q) = L2(vectors[i], q) /\ i <= j)
                 IN <<<<L2(vectors[best], q), best - 1>>>>
                    \o FaissSearch(vectors, q, k - 1, taken \cup {best})

\* Python list[idx] for idx >= -1: the last element for -1
PyIndex(list, idx) == IF idx = -1 THEN list[Len(list)] ELSE list[idx + 1]

\* mutant: each result is put in front of the list (results.insert(0, ...))
ResultList_Reversed(found, texts, metadata, thr) ==
    [i \in 1..Len(found) |->
        [text |-> PyIndex(texts, found[Len(found) + 1 - i][2]),
         metadata |-> PyIndex(metadata, found[Len(found) + 1 - i][2]),
         distance |-> found[Len(found) + 1 - i][1],
         similarity |-> Similarity(found[Len(found) + 1 - i][1]),
         is_confident |-> SimGE(Similarity(found[Len(found) + 1 - i][1]), thr)]]

\* the loop of retrieve over indices[0]: one result dict per found entry
ResultList(found, texts, metadata, thr) ==
    [i \in 1..Len(found) |->
        [text |-> PyIndex(texts, found[i][2]),
         metadata |-> PyIndex(metadata, found[i][2]),
         distance |-> found[i][1],
         similarity |-> Similarity(found[i][1]),
         is_confident |-> SimGE(Similarity(found[i][1]), thr)]]

\* retrieve(query, k) on a built index: the list of result dicts, or
\* "IndexError" when an idx lies outside self.texts
retrieve(index, texts, metadata, thr, query, k) ==
    LET found == FaissSearch(index.vectors, Embed(query), k, {})
    IN IF \E i \in 1..Len(found) : found[i][2] >= Len(texts) \/ Len(texts) = 0
                                      \/ found[i][2] >= Len(metadata) \/ Len(metadata) = 0
       THEN [raised |-> "IndexError", results |-> <<>>]
       ELSE [raised |-> "", results |-> ResultList(found, texts, metadata, thr)]

\* mutant: the check of the average similarity is missing
_validate_retrieval_NoMean(docs, thr) ==
    IF docs = <<>> THEN <<FALSE, "No relevant documents found">>
    ELSE IF Cardinality({i \in 1..Len(docs) : docs[i].is_confident}) < min_retrieved_docs
    THEN <<FALSE, "Insufficient confident sources">>
    ELSE <<TRUE, "Valid">>

\* _validate_retrieval(retrieved_docs) -> <<is_valid, reason>>
_validate_retrieval(docs, thr) ==
    IF docs = <<>> THEN <<FALSE, "No relevant documents found">>
    ELSE IF Cardinality({i \in 1..Len(docs) : docs[i].is_confident}) < min_retrieved_docs
    THEN <<FALSE, "Insufficient confident sources">>
    ELSE IF ~SimGE(MeanSimilarity(docs), thr)
    THEN <<FALSE, "Low average relevance score">>
    ELSE <<TRUE, "Valid">>

\* sorted(docs, key=similarity, reverse=True): stable
RECURSIVE InsertBySim(_, _)
InsertBySim(sorted, d) ==
    IF sorted = <<>> THEN <<d>>
    ELSE IF SimGT(d.similarity, Head(sorted).similarity) THEN <<d>> \o sorted
    ELSE <<Head(sorted)>> \o InsertBySim(Tail(sorted), d)

RECURSIVE SortBySim(_)
SortBySim(docs) ==
    IF docs = <<>> THEN <<>>
    ELSE InsertBySim(SortBySim(SubSeq(docs, 1, Len(docs) - 1)), docs[Len(docs)])

\* len(chunk) for f"[Source {i}: {source} (Relevance: {similarity:.2f})]\n{text}\n\n", i < 10
ChunkLen(doc) == 33 + SourceLen(doc.metadata.source) + TextLen(doc.text)

\* the loop of generate_context over the sorted docs: the chunks kept
RECURSIVE ContextParts(_, _, _)
ContextParts(sorted_docs, i, current_length) ==
    IF i > Len(sorted_docs) THEN <<>>
    ELSE IF current_length + ChunkLen(sorted_docs[i]) > max_context_length THEN <<>>
    ELSE <<[rank |-> i, source |-> sorted_docs[i].metadata.source,
            similarity |-> sorted_docs[i].similarity, text |-> sorted_docs[i].text]>>
         \o ContextParts(sorted_docs, i + 1, current_length + ChunkLen(sorted_docs[i]))

\* mutant: only the confident documents go into the context
generate_context_ConfidentOnly(docs) ==
    ContextParts(SortBySim(SelectSeq(docs, LAMBDA d : d.is_confident)), 1, 0)

\* generate_context(retrieved_docs): the chunks joined into the context
generate_context(docs) == ContextParts(SortBySim(docs), 1, 0)

\* _generate_answer(prompt, ...): the model's text, or the in-band error string
_generate_answer(prompt, llm) ==
    IF llm = "raises" THEN [kind |-> "error", body |-> "Error generating answer"]
    ELSE [kind |-> "llm", body |-> prompt]

\* mutant: the test of strict_mode is inverted
Declines_Inverted(is_valid, strict) == ~is_valid /\ ~strict

\* mutant: the refusal branch is never taken
Declines_Never(is_valid, strict) == FALSE

\* `if not is_valid and self.strict_mode`
Declines(is_valid, strict) == ~is_valid /\ strict

\* query(question, k) once self.generator is loaded and retrieve has returned
\* docs: the result dict, and the number of calls of self.generator
query(docs, thr, strict, question, llm) ==
    LET v == _validate_retrieval(docs, thr)
    IN IF Declines(v[1], strict)
       THEN [llm_invocations |-> 0,
             result |-> [question |-> question,
                         answer |-> [kind |-> "refusal", body |-> v[2]],
                         sources |-> <<>>,
                         retrieved_docs |-> docs,
                         context |-> <<>>,
                         confidence |-> "low",
                         validation_failed |-> TRUE]]
       ELSE LET context == generate_context(docs)
                prompt == [strict |-> TRUE, question |-> question, context |-> context]
            IN [llm_invocations |-> 1,
                result |-> [question |-> question,
                            answer |-> _generate_answer(prompt, llm),
                            sources |-> [i \in 1..Len(docs) |-> docs[i].metadata],
                            retrieved_docs |-> docs,
                            context |-> context,
                            confidence |-> IF SimGE(MeanSimilarity(docs), thr) THEN "high" ELSE "low",
                            avg_similarity |-> MeanSimilarity(docs),
                            validation_passed |-> v[1]]]


(***************************************************************************)
(* RAGSystem: the operations on one instance.                              *)
(***************************************************************************)
\* the lists of texts a caller passes to build_index (never empty: the
\* callers build an index only from collected data)
TextLists ==
    {t \in UNION {[1..n -> TextIds] : n \in 1..MaxRecs} :
        \A i, j \in 1..Len(t) : i # j => t[i] # t[j]}

\* mutant: the embeddings are added to the index that exists
NewIndex_Add(old, embeddings) == [none |-> FALSE, vectors |-> old.vectors \o embeddings]

\* self.index = faiss.IndexFlatL2(self.d); self.index.add(embeddings)
NewIndex(old, embeddings) == [none |-> FALSE, vectors |-> embeddings]

\* no collection request takes part in the life of a RAGSystem
SpiderIdle ==
    /\ variant = "v3"
    /\ max_sources_arg = 20
    /\ max_sources = 20
    /\ pc = "idle"
    /\ results = <<>>
    /\ search_results = <<>>
    /\ pos = 1
    /\ sources = <<>>
    /\ processed_urls = {}
    /\ domain_counts = <<>>
    /\ trace = <<>>

\* RAGSystem.__init__
RagInit ==
    /\ rag_index = [none |-> TRUE, vectors |-> <<>>]
    /\ rag_texts = <<>>
    /\ rag_metadata = <<>>
    /\ generator = "None"
    /\ strict_mode \in BOOLEAN
    /\ confidence_threshold = [num |-> 3, den |-> 5]
    /\ built = [texts |-> <<>>, metadata |-> <<>>]
    /\ dropped = {}
    /\ out = [op |-> "__init__"]

\* load_llm
LoadLlm ==
    /\ generator = "None"
    /\ generator' = "loaded"
    /\ out' = [op |-> "load_llm"]
    /\ UNCHANGED <<rag_index, rag_texts, rag_metadata, strict_mode, confidence_threshold,
                   built, dropped>>
    /\ UNCHANGED spiderVars
    /\ UNCHANGED artVars

\* build_index(texts, metadata)
BuildIndex ==
    /\ \E texts \in TextLists :
         LET metadata == [i \in 1..Len(texts) |-> MetaOf(texts[i])]
             embeddings == [i \in 1..Len(texts) |-> Embed(texts[i])]
         IN /\ rag_texts' = texts
            /\ rag_metadata' = metadata
            /\ rag_index' = NewIndex(rag_index, embeddings)
            /\ built' = [texts |-> texts, metadata |-> metadata]
    /\ dropped' = Range(built.texts) \ Range(rag_texts')
    /\ out' = [op |-> "build_index"]
    /\ UNCHANGED <<generator, strict_mode, confidence_threshold>>
    /\ UNCHANGED spiderVars
    /\ UNCHANGED artVars

\* retrieve(query, k)
Retrieve ==
    /\ \E question \in Queries, k \in 1..MaxK :
         IF rag_index.none
         THEN out' = [op |-> "retrieve", raised |-> "ValueError", question |-> question,
                      k |-> k, results |-> <<>>]
         ELSE LET r == retrieve(rag_index, rag_texts, rag_metadata, confidence_threshold,
                                question, k)
              IN out' = [op |-> "retrieve", raised |-> r.raised, question |-> question,
                         k |-> k, results |-> r.results]
    /\ UNCHANGED <<rag_index, rag_texts, rag_metadata, generator, strict_mode,
                   confidence_threshold, built, dropped>>
    /\ UNCHANGED spiderVars
    /\ UNCHANGED artVars

\* query(question, k)
Query ==
    /\ \E question \in Queries, k \in 1..MaxK, llm \in LlmOutcomes :
         IF generator = "None" \/ rag_index.none
         THEN out' = [op |-> "query", raised |-> "ValueError", question |-> question, k |-> k]
         ELSE LET r == retrieve(rag_index, rag_texts, rag_metadata, confidence_threshold,
                                question, k)
              IN IF r.raised # ""
                 THEN out' = [op |-> "query", raised |-> r.raised, question |-> question, k |-> k]
                 ELSE LET q == query(r.results, confidence_threshold, strict_mode, question, llm)
                      IN out' = [op |-> "query", raised |-> "", question |-> question, k |-> k,
                                 result |-> q.result, llm_invocations |-> q.llm_invocations]
    /\ UNCHANGED <<rag_index, rag_texts, rag_metadata, generator, strict_mode,
                   confidence_threshold, built, dropped>>
    /\ UNCHANGED spiderVars
    /\ UNCHANGED artVars

RagNext ==
    \/ LoadLlm
    \/ BuildIndex
    \/ Retrieve
    \/ Query

RagSpecInit == SpiderIdle /\ RagInit /\ ArtIdle

\* the life of one RAGSystem instance
SpecRag == RagSpecInit /\ [][RagNext]_vars

(***************************************************************************)
(* _validate_retrieval on its own, over lists of result dicts.             *)
(***************************************************************************)
DocMenu ==
    {[similarity |-> Sim(n, 10, 0), is_confident |-> c] : n \in {3, 7, 8, 9}, c \in BOOLEAN}

DocLists == UNION {[1..n -> DocMenu] : n \in 0..MaxDocs}

ValidateInit ==
    /\ SpiderIdle
    /\ ArtIdle
    /\ rag_index = [none |-> TRUE, vectors |-> <<>>]
    /\ rag_texts = <<>>
    /\ rag_metadata = <<>>
    /\ generator = "None"
    /\ strict_mode = TRUE
    /\ confidence_threshold = [num |-> 3, den |-> 5]
    /\ built = [texts |-> <<>>, metadata |-> <<>>]
    /\ dropped = {}
    /\ \E docs \in DocLists : out = [op |-> "docs", docs |-> docs]

Validate ==
    /\ out.op = "docs"
    /\ out' = [op |-> "_validate_retrieval", docs |-> out.docs,
               result |-> _validate_retrieval(out.docs, confidence_threshold)]
    /\ UNCHANGED <<rag_index, rag_texts, rag_metadata, generator, strict_mode,
                   confidence_threshold, built, dropped>>
    /\ UNCHANGED spiderVars
    /\ UNCHANGED artVars

SpecValidate == ValidateInit /\ [][Validate]_vars

(***************************************************************************)
(* _filter_relevant_results on its own, over lists of candidates as        *)
(* search_serpapi builds them (the first tier appends without looking for  *)
(* a known URL, so a list may hold one URL twice).                         *)
(***************************************************************************)
MaxCands == 3         \* length of the lists given to _filter_relevant_results

Cand(h, i, seg, t, sn, prio) ==
    [url |-> Url(h, i, ".html", seg), title |-> t, snippet |-> sn,
     doc_type |-> "html", priority |-> prio]

CandMenu ==
    {Cand("up.ac.za", 1, "", TitleExact, SnippetOther, "high"),
     Cand("up.ac.za", 1, "", TitleOther, SnippetOther, "low"),
     Cand("pinterest.com", 1, "", TitleExact, SnippetOther, "low"),
     Cand("garden.example.com", 1, "", TitleOther, SnippetOther, "low"),
     Cand("garden.example.com", 1, "", TitleExact, SnippetOther, "low"),
     Cand("garden.example.com", 2, "", TitleGenus, <<"garden">>, "low"),
     Cand("kew.org", 1, "/plant/", TitleExact, <<"aloe">>, "low")}

CandLists == UNION {[1..n -> CandMenu] : n \in 0..MaxCands}

\* every variable but `out` and `variant` at rest
Quiet ==
    /\ max_sources_arg = 20
    /\ max_sources = 20
    /\ pc = "idle"
    /\ results = <<>>
    /\ search_results = <<>>
    /\ pos = 1
    /\ sources = <<>>
    /\ processed_urls = {}
    /\ domain_counts = <<>>
    /\ trace = <<>>
    /\ rag_index = [none |-> TRUE, vectors |-> <<>>]
    /\ rag_texts = <<>>
    /\ rag_metadata = <<>>
    /\ generator = "None"
    /\ strict_mode = TRUE
    /\ confidence_threshold = [num |-> 3, den |-> 5]
    /\ built = [texts |-> <<>>, metadata |-> <<>>]
    /\ dropped = {}
    /\ ArtIdle

FilterInit ==
    /\ Quiet
    /\ variant \in {"v3", "v4"}
    /\ \E input \in CandLists : out = [op |-> "candidates", input |-> input]

Filter ==
    /\ out.op = "candidates"
    /\ out' = [op |-> "_filter_relevant_results", input |-> out.input,
               result |-> _filter_relevant_results(variant, out.input, PlantName)]
    /\ UNCHANGED <<rag_index, rag_texts, rag_metadata, generator, strict_mode,
                   confidence_threshold, built, dropped>>
    /\ UNCHANGED spiderVars
    /\ UNCHANGED artVars

SpecFilter == FilterInit /\ [][Filter]_vars

(***************************************************************************)
(* _extract_generic_content on its own.  A page is its <p> elements in     *)
(* document order and, for each of the four selectors, the elements it     *)
(* selects.  An element is [pos, len, content]: its place in the document, *)
(* the length of its stripped text, and whether _is_content_text accepts   *)
(* the text.  The joined string is the sequence of the elements joined.    *)
(***************************************************************************)
MaxParas == 6         \* <p> elements of a page after its leading block

\* a paragraph of content, a short one, and one with a skip phrase
ParaKinds == {"content", "short", "nav"}

Para(place, kind) ==
    [pos |-> place,
     len |-> IF kind = "short" THEN 45 ELSE 60,
     content |-> kind # "nav"]

\* the <p> elements of a page: `lead` paragraphs with a skip phrase, then kinds
Paragraphs(lead, kinds) ==
    [i \in 1..(lead + Len(kinds)) |->
        IF i <= lead THEN Para(i, "nav") ELSE Para(i, kinds[i - lead])]

\* what the selectors 'article p', '.entry-content p', '.content p', 'main p'
\* select on a page: nothing, or the first two elements for 'article p' and
\* every element for 'main p', or every element for '.content p'
Selections(paras) ==
    {<<<<>>, <<>>, <<>>, <<>>>>,
     <<Take(paras, 2), <<>>, <<>>, paras>>,
     <<<<>>, <<>>, paras, <<>>>>}

\* _is_content_text(text)
_is_content_text(elem) == elem.content

\* the loop over the selectors, from selector s on
RECURSIVE SelectorLoop(_, _, _)
SelectorLoop(selected, s, content_parts) ==
    IF s > Len(selected) THEN content_parts
    ELSE IF selected[s] = <<>> THEN SelectorLoop(selected, s + 1, content_parts)
    ELSE LET parts == content_parts
                        \o SelectSeq(Take(selected[s], 10),
                                     LAMBDA e : e.len > 40 /\ _is_content_text(e))
         IN IF Len(parts) >= 3 THEN parts
            ELSE SelectorLoop(selected, s + 1, parts)

\* mutant: the scan goes on up to the cap of the return
ScanEnough_Eight(content_parts) == Len(content_parts) >= 8

\* `if len(content_parts) >= 5: break`
ScanEnough(content_parts) == Len(content_parts) >= 5

\* the loop over soup.find_all('p')[:20]
RECURSIVE ScanParagraphs(_, _)
ScanParagraphs(paragraphs, content_parts) ==
    IF paragraphs = <<>> THEN content_parts
    ELSE LET e == Head(paragraphs)
             parts == IF e.len > 50 /\ _is_content_text(e)
                      THEN Append(content_parts, e) ELSE content_parts
         IN IF ScanEnough(parts) THEN parts
            ELSE ScanParagraphs(Tail(paragraphs), parts)

\* _extract_generic_content(soup)
_extract_generic_content(page) ==
    LET selected_parts == SelectorLoop(page.selected, 1, <<>>)
        content_parts == IF selected_parts = <<>>
                         THEN ScanParagraphs(Take(page.paragraphs, 20), <<>>)
                         ELSE selected_parts
    IN Take(content_parts, 8)

GenericInit ==
    /\ Quiet
    /\ variant = "v3"
    /\ \E lead \in {0, 20}, n \in 0..MaxParas :
         \E kinds \in [1..n -> ParaKinds] :
           \E sel \in Selections(Paragraphs(lead, kinds)) :
             out = [op |-> "page",
                    page |-> [paragraphs |-> Paragraphs(lead, kinds), selected |-> sel]]

ExtractGeneric ==
    /\ out.op = "page"
    /\ out' = [op |-> "_extract_generic_content", page |-> out.page,
               result |-> _extract_generic_content(out.page)]
    /\ UNCHANGED <<rag_index, rag_texts, rag_metadata, generator, strict_mode,
                   confidence_threshold, built, dropped>>
    /\ UNCHANGED spiderVars
    /\ UNCHANGED artVars

SpecGeneric == GenericInit /\ [][ExtractGeneric]_vars

(***************************************************************************)
(* _get_reliability_level on its own, over pairs of scores in hundredths.  *)
(* The scores run past 1.00: the function takes any float.                 *)
(***************************************************************************)
Scores == 0..105

LevelInit ==
    /\ Quiet
    /\ variant = "v3"
    /\ \E s1, s2 \in Scores : out = [op |-> "scores", s1 |-> s1, s2 |-> s2]

Levels ==
    /\ out.op = "scores"
    /\ out' = [op |-> "_get_reliability_level", s1 |-> out.s1, s2 |-> out.s2,
               level1 |-> _get_reliability_level(out.s1),
               level2 |-> _get_reliability_level(out.s2)]
    /\ UNCHANGED <<rag_index, rag_texts, rag_metadata, generator, strict_mode,
                   confidence_threshold, built, dropped>>
    /\ UNCHANGED spiderVars
    /\ UNCHANGED artVars

SpecLevel == LevelInit /\ [][Levels]_vars

(***************************************************************************)
(* The final sort of collect_plant_sources on its own: the same accepted   *)
(* records, appended to `sources` in two extraction orders.                *)
(***************************************************************************)
MaxSorted == 3        \* records in the list that is sorted

\* pages whose extraction the loop accepts; two of them get the same score
SortedUrls ==
    {Url("up.ac.za", 1, ".html", ""), Url("up.ac.za", 2, ".html", ""),
     Url("up.ac.za", 4, ".html", ""), Url("kew.org", 1, ".html", ""),
     Url("kew.org", 3, ".html", ""), Url("herbs.co.za", 2, ".html", "")}

\* the record the loop appends for the page
RagSource(url) ==
    LET source == extract_plant_info("v3", url, "html", "ok")
    IN [text |-> source[1].text, metadata |-> source[1].metadata]

\* the orders in which the loop may have appended the records of the pages
Orders(urls) ==
    {[i \in 1..Len(f) |-> RagSource(f[i])] :
        f \in {g \in [1..Cardinality(urls) -> urls] :
                 \A i, j \in 1..Cardinality(urls) : i # j => g[i] # g[j]}}

SortInit ==
    /\ Quiet
    /\ variant = "v3"
    /\ \E urls \in SUBSET SortedUrls :
         /\ Cardinality(urls) <= MaxSorted
         /\ \E a, b \in Orders(urls) : out = [op |-> "sources", a |-> a, b |-> b]

SortBoth ==
    /\ out.op = "sources"
    /\ out' = [op |-> "sort", a |-> out.a, b |-> out.b,
               sorted_a |-> SortSources(out.a), sorted_b |-> SortSources(out.b)]
    /\ UNCHANGED <<rag_index, rag_texts, rag_metadata, generator, strict_mode,
                   confidence_threshold, built, dropped>>
    /\ UNCHANGED spiderVars
    /\ UNCHANGED artVars

SpecSort == SortInit /\ [][SortBoth]_vars

(***************************************************************************)
(* is_supported_document on its own, and what the loop of search_serpapi   *)
(* makes of one organic result with the URL.                               *)
(***************************************************************************)
Extensions == {".html", ".pdf", ".txt"} \cup UnsupportedExtensions

UrlSegs == {"", "/pdf/", "/plant/"}

SupportedInit ==
    /\ Quiet
    /\ variant \in {"v3", "v4"}
    /\ \E h \in Hosts, e \in Extensions, s \in UrlSegs :
         out = [op |-> "url", url |-> Url(h, 1, e, s)]

Classify ==
    /\ out.op = "url"
    /\ out' = [op |-> "is_supported_document", url |-> out.url,
               result |-> is_supported_document(out.url),
               candidates |-> AppendTier(<<>>, <<[link |-> out.url, title |-> TitleExact,
                                                 snippet |-> SnippetOther]>>,
                                         "high", FALSE)]
    /\ UNCHANGED <<rag_index, rag_texts, rag_metadata, generator, strict_mode,
                   confidence_threshold, built, dropped>>
    /\ UNCHANGED <<max_sources_arg, max_sources, pc, results, search_results, pos,
                   sources, processed_urls, domain_counts, trace>>
    /\ UNCHANGED variant
    /\ UNCHANGED artVars

SpecSupported == SupportedInit /\ [][Classify]_vars

(***************************************************************************)
(* search(name) of flask_app/research_v3/Spider.py: the collection request *)
(* of a spider built with max_sources=20, then the four questions to       *)
(* Google AI Mode, then Wikipedia, then the list handed to the caller.     *)
(* pc goes on from "done" to "asked" and to "returned" or "raised".        *)
(***************************************************************************)
\* what ask_question may meet: an answer with text blocks, an answer
\* without any, or an exception (caught inside ask_question)
AskOutcomes == {"answered", "empty", "failed"}

\* the outcomes of the four questions, in the order asked
AskMenu ==
    {<<"answered", "answered", "answered", "answered">>,
     <<"failed", "failed", "failed", "failed">>,
     <<"answered", "empty", "failed", "answered">>}

\* ask_question(plant_name, question)
ask_question(outcome) ==
    IF outcome = "failed"
    THEN [text |-> Content(0, {}), metadata |-> [kind |-> "error"]]
    ELSE [text |-> Content(IF outcome = "answered" THEN 600 ELSE 0, {}),
          metadata |-> [kind |-> "google_ai_mode"]]

\* what wiki(plant_name) may meet: the page exists, it does not, or the
\* request to Wikipedia raises
WikiOutcomes == {"exists", "missing", "raises"}

\* len(plant_name) for "aloe ferox"
PlantNameLen == 10

\* wiki(plant_name): the list it returns
wiki(outcome) ==
    IF outcome = "exists"
    THEN <<[text |-> Content(3000, {"botanical"}), metadata |-> [kind |-> "wikipedia"]]>>
    ELSE <<[text |-> Content(PlantNameLen, {}), metadata |-> [kind |-> "no_page"]]>>

SearchInit ==
    /\ variant = "v3"
    /\ max_sources_arg = 20
    /\ max_sources = InitMaxSources("v3", 20)
    /\ pc = "search1"
    /\ results = <<>>
    /\ search_results = <<>>
    /\ pos = 1
    /\ sources = <<>>
    /\ processed_urls = {}
    /\ domain_counts = <<>>
    /\ trace = <<>>
    /\ RagIdle
    /\ ArtIdle

\* spider.ai_client.ask_multiple_questions(plant_name)
ask_multiple_questions ==
    /\ pc = "done"
    /\ \E asked \in AskMenu :
         out' = [op |-> "ask_multiple_questions", asked |-> asked,
                 questions |-> [i \in 1..Len(asked) |-> ask_question(asked[i])]]
    /\ pc' = "asked"
    /\ UNCHANGED <<variant, max_sources_arg, max_sources, results, search_results, pos,
                   sources, processed_urls, domain_counts, trace>>
    /\ UNCHANGED <<rag_index, rag_texts, rag_metadata, generator, strict_mode,
                   confidence_threshold, built, dropped>>
    /\ UNCHANGED artVars

\* wiki(plant_name), and search() from there to `return sources`
SearchReturn ==
    /\ pc = "asked"
    /\ \E page \in WikiOutcomes :
         IF page = "raises"
         THEN /\ pc' = "raised"
              /\ out' = [op |-> "search", raised |-> "Exception", asked |-> out.asked,
                         page |-> page, result |-> <<>>]
              /\ UNCHANGED sources
         ELSE /\ pc' = "returned"
              /\ sources' = (sources \o out.questions) \o <<wiki(page)[1]>>
              /\ out' = [op |-> "search", raised |-> "", asked |-> out.asked,
                         page |-> page, result |-> sources']
    /\ UNCHANGED <<variant, max_sources_arg, max_sources, results, search_results, pos,
                   processed_urls, domain_counts, trace>>
    /\ UNCHANGED <<rag_index, rag_texts, rag_metadata, generator, strict_mode,
                   confidence_threshold, built, dropped>>
    /\ UNCHANGED artVars

\* The spider of search() has max_sources = 20 and the first two searches
\* bring fewer results than that, so the third search is always made.
SearchNext ==
    \/ SearchTier1
    \/ SearchTier2
    \/ SearchTier3
    \/ ExtractStep
    \/ ExtractDone
    \/ ask_multiple_questions
    \/ SearchReturn

SpecSearch == SearchInit /\ [][SearchNext]_vars

(***************************************************************************)
(* Part III.  EnhancedPlantArticleGenerator.                               *)
(*                                                                         *)
(* A section body is [kind, section, subject, formatted]: kind says where  *)
(* the text comes from ("template" for the f-string of the else branch,    *)
(* else the kind of the answer of RAGSystem.query), subject is the plant   *)
(* name the f-string interpolates (<<>> for a text of the RAG system).     *)
(* art_pc: "idle" -> "introduction" -> "facts" -> "care" -> "benefits" ->  *)
(* "conclusion" -> "assemble" -> "done", or "raised" when a call raises.   *)
(***************************************************************************)
SectionOrder == <<"introduction", "facts", "care", "benefits", "conclusion">>

\* the <h2 class="section-heading"> of each section method
Heading(name) ==
    CASE name = "introduction" -> "Introduction"
      [] name = "facts" -> "Fascinating Facts"
      [] name = "care" -> "Care & Cultivation"
      [] name = "benefits" -> "Benefits & Traditional Uses"
      [] OTHER -> "Conclusion"

\* the k each section method passes to rag_system.query
SectionK(module, name) ==
    IF module = "ImgSearch"
    THEN (IF name = "introduction" THEN 5 ELSE 10)
    ELSE (IF name = "introduction" THEN 3 ELSE 5)

\* EnhancedPlantArticleGenerator(rag_system, fetch_images); ArtGen fetches no images
GenConfigs ==
    {g \in [variant : {"ImgSearch", "ArtGen"}, rag_system : BOOLEAN,
            fetch_images : BOOLEAN, include_front_matter : BOOLEAN] :
        g.variant = "ArtGen" => ~g.fetch_images}

\* what the request of WikiCommonsImageFetcher.search_images may come to:
\* a RequestException, no page, or pages
ImageOutcomes == {"failed", "empty", "found"}

\* get_images_for_plant, then `while len(images) < 5: images.append(None)`
PaddedImages(outcome) == [i \in 1..5 |-> IF outcome = "found" THEN "image" ELSE "None"]

\* the lists of records generate_full_article is called with
DataMenu ==
    {<<>>,
     <<[text |-> "t1", metadata |-> MetaOf("t1")]>>,
     <<[text |-> "t1", metadata |-> MetaOf("t1")], [text |-> "t2", metadata |-> MetaOf("t2")]>>}

\* the else branch of a section method: the f-string with plant_name
TemplateBody(name, plant_name) ==
    [kind |-> "template", section |-> name, subject |-> plant_name, formatted |-> FALSE]

\* the if branch of a section method: result['answer']
AnswerBody(name, answer) ==
    [kind |-> answer.kind, section |-> name, subject |-> <<>>, formatted |-> FALSE]

\* HTMLContentFormatter.clean_content: markup is converted and loose lines are
\* wrapped in <p>; no word of the text is removed
clean_content(body) == [body EXCEPT !.formatted = TRUE]

\* rag_system.query(question, k, ...) on the RAGSystem of the model: what it
\* raises, or the result dict
QueryCall(question, k, llm) ==
    IF generator = "None" \/ rag_index.none
    THEN [raised |-> "ValueError", result |-> <<>>, llm_invocations |-> 0]
    ELSE LET r == retrieve(rag_index, rag_texts, rag_metadata, confidence_threshold,
                           question, k)
         IN IF r.raised # ""
            THEN [raised |-> r.raised, result |-> <<>>, llm_invocations |-> 0]
            ELSE LET q == query(r.results, confidence_threshold, strict_mode, question, llm)
                 IN [raised |-> "", result |-> <<q.result>>,
                     llm_invocations |-> q.llm_invocations]

ImageEvent(outcome) == [ev |-> "images", section |-> "", k |-> 0, outcome |-> outcome]

QueryEvent(name, k, outcome) == [ev |-> "query", section |-> name, k |-> k, outcome |-> outcome]

\* mutant: the section methods query whenever a RAG system is given
UsesRag_IgnoresData(g, data) == g.rag_system

\* `if self.rag_system and research_data`
UsesRag(g, data) == g.rag_system /\ data # <<>>

\* one section method: the image, the heading, and the body from the RAG
\* system or from the template
SectionStep(name, next) ==
    /\ art_pc = name
    /\ LET image == gen.variant = "ImgSearch" /\ images[Len(sections) + 1] # "None"
           k == SectionK(gen.variant, name)
           format(b) == IF gen.variant = "ImgSearch" THEN clean_content(b) ELSE b
       IN IF UsesRag(gen, research_data)
          THEN \E llm \in LlmOutcomes :
                 LET r == QueryCall(name, k, llm)
                 IN IF r.raised # ""
                    THEN /\ art_pc' = "raised"
                         /\ art_log' = Append(art_log, QueryEvent(name, k, "raised"))
                         /\ out' = [op |-> "query", raised |-> r.raised, question |-> name,
                                    k |-> k]
                         /\ UNCHANGED sections
                    ELSE /\ art_pc' = next
                         /\ art_log' = Append(art_log,
                                              QueryEvent(name, k, r.result[1].answer.kind))
                         /\ out' = [op |-> "query", raised |-> "", question |-> name, k |-> k,
                                    result |-> r.result[1],
                                    llm_invocations |-> r.llm_invocations]
                         /\ sections' = Append(sections,
                                [name |-> name, heading |-> Heading(name), image |-> image,
                                 body |-> format(AnswerBody(name, r.result[1].answer))])
          ELSE /\ art_pc' = next
               /\ sections' = Append(sections,
                      [name |-> name, heading |-> Heading(name), image |-> image,
                       body |-> format(TemplateBody(name, PlantName))])
               /\ UNCHANGED <<art_log, out>>
    /\ UNCHANGED <<gen, research_data, images, document>>
    /\ UNCHANGED <<rag_index, rag_texts, rag_metadata, generator, strict_mode,
                   confidence_threshold, built, dropped>>
    /\ UNCHANGED spiderVars

\* the constructor, and generate_full_article up to the sections: the images
StartArticle(data) ==
    /\ art_pc = "idle"
    /\ \E g \in GenConfigs, img \in ImageOutcomes :
         /\ gen' = g
         /\ research_data' = data
         /\ IF g.fetch_images
            THEN /\ art_log' = <<ImageEvent(img)>>
                 /\ images' = PaddedImages(img)
            ELSE /\ art_log' = <<>>
                 /\ images' = PaddedImages("empty")
    /\ art_pc' = "introduction"
    /\ UNCHANGED <<sections, document>>
    /\ UNCHANGED ragVars
    /\ UNCHANGED spiderVars

generate_introduction ==
    /\ art_pc = "introduction"
    /\ SectionStep("introduction", "facts")

generate_facts_section ==
    /\ art_pc = "facts"
    /\ SectionStep("facts", "care")

\* mutant: generate_full_article goes from the care section to the conclusion
generate_care_section_ThenConclusion ==
    /\ art_pc = "care"
    /\ SectionStep("care", "conclusion")

generate_care_section ==
    /\ art_pc = "care"
    /\ SectionStep("care", "benefits")

generate_benefits_section ==
    /\ art_pc = "benefits"
    /\ SectionStep("benefits", "conclusion")

generate_conclusion ==
    /\ art_pc = "conclusion"
    /\ SectionStep("conclusion", "assemble")

\* generate_full_article from "Combine everything" to its return
Assemble ==
    /\ art_pc = "assemble"
    /\ document' = [returned |-> TRUE,
                    front_matter |-> IF gen.include_front_matter
                                     THEN <<[title |-> PlantName, tags |-> PlantName]>>
                                     ELSE <<>>,
                    image_section |-> gen.variant = "ArtGen",
                    body |-> sections]
    /\ art_pc' = "done"
    /\ UNCHANGED <<gen, research_data, images, sections, art_log>>
    /\ UNCHANGED ragVars
    /\ UNCHANGED spiderVars

\* generate_full_article called with a list of records
GenerateFromData ==
    /\ art_pc = "idle"
    /\ \E data \in DataMenu : StartArticle(data)

\* the RAGSystem a caller may hand to the generator: index built or not,
\* model loaded or not
IndexMenu == {<<>>, <<"t2">>, <<"t1", "t2", "t3">>}

RagPrepared ==
    /\ \E texts \in IndexMenu :
         /\ rag_index = IF texts = <<>> THEN [none |-> TRUE, vectors |-> <<>>]
                        ELSE NewIndex([none |-> TRUE, vectors |-> <<>>],
                                      [i \in 1..Len(texts) |-> Embed(texts[i])])
         /\ rag_texts = texts
         /\ rag_metadata = [i \in 1..Len(texts) |-> MetaOf(texts[i])]
         /\ built = [texts |-> texts, metadata |-> [i \in 1..Len(texts) |-> MetaOf(texts[i])]]
    /\ generator \in {"None", "loaded"}
    /\ strict_mode \in BOOLEAN
    /\ confidence_threshold = [num |-> 3, den |-> 5]
    /\ dropped = {}
    /\ out = [op |-> "none"]

ArticleInit == SpiderIdle /\ RagPrepared /\ ArtIdle

ArticleNext ==
    \/ GenerateFromData
    \/ generate_introduction
    \/ generate_facts_section
    \/ generate_care_section
    \/ generate_benefits_section
    \/ generate_conclusion
    \/ Assemble

\* one article generation
SpecArticle == ArticleInit /\ [][ArticleNext]_vars

(***************************************************************************)
(* A collection request while no outbound request succeeds, then the       *)
(* generation of an article from the list it returned.                     *)
(***************************************************************************)
\* the first search request, failing
OfflineSearch ==
    /\ SearchTier1
    /\ trace'[Len(trace')].outcome = "failed"

\* generate_full_article called with what collect_plant_sources returned,
\* the image request failing
OfflineGenerate ==
    /\ pc = "done"
    /\ StartArticle(sources)
    /\ \A i \in 1..Len(art_log') : art_log'[i].outcome = "failed"

OfflineNext ==
    \/ OfflineSearch
    \/ OfflineGenerate
    \/ generate_introduction
    \/ generate_facts_section
    \/ generate_care_section
    \/ generate_benefits_section
    \/ generate_conclusion
    \/ Assemble

SpecOffline == CollectInit /\ [][OfflineNext]_vars


(***************************************************************************)
(* Properties of RAGSystem.                                                *)
(***************************************************************************)
\* the sum of the similarities of docs as an unreduced fraction <<num, den>>
RECURSIVE RefTotal(_)
RefTotal(docs) ==
    IF docs = <<>> THEN <<0, 1>>
    ELSE LET s == Head(docs).similarity
             r == RefTotal(Tail(docs))
         IN <<s.num * r[2] + r[1] * s.den, s.den * r[2]>>

\* the validation rule of the specification: there are results, at least
\* min_confident_docs of them are confident, and the mean similarity is at
\* least the threshold
RefValid(docs, thr) ==
    /\ Len(docs) > 0
    /\ Cardinality({i \in 1..Len(docs) : docs[i].is_confident}) >= 2
    /\ RefTotal(docs)[1] * thr.den >= thr.num * Len(docs) * RefTotal(docs)[2]

\* a query has returned a result
Answered == out.op = "query" /\ out.raised = ""

\* ... for which the retrieval did not pass validation
AnsweredInvalid == Answered /\ ~RefValid(out.result.retrieved_docs, confidence_threshold)

\* C3 as stated: in either mode, a result whose retrieval did not pass
\* validation carries the refusal and nothing the language model wrote
C3_RefusalInEveryMode == AnsweredInvalid => out.result.answer.kind = "refusal"

\* C3 amended: a result whose retrieval did not pass validation carries, in
\* strict mode, the refusal and nothing the language model wrote; in
\* non-strict mode it carries what _generate_answer returned, with
\* validation_passed = false
C3_RefusalInStrictMode ==
    AnsweredInvalid =>
        IF strict_mode
        THEN /\ out.result.answer.kind = "refusal"
             /\ out.result.answer.body \in {"No relevant documents found",
                                            "Insufficient confident sources",
                                            "Low average relevance score"}
        ELSE /\ out.result.answer.kind \in {"llm", "error"}
             /\ out.result.validation_passed = FALSE

\* a strict query refused for its low average similarity
C3_Witness ==
    /\ AnsweredInvalid
    /\ strict_mode
    /\ out.result.answer = [kind |-> "refusal", body |-> "Low average relevance score"]

\* C4: in strict mode a query whose retrieval fails validation returns the
\* templated refusal, and self.generator is not called during that query
C4_StrictNeverGenerates ==
    (AnsweredInvalid /\ strict_mode) =>
        /\ out.llm_invocations = 0
        /\ out.result.answer.kind = "refusal"
        /\ out.result.context = <<>>
        /\ out.result.sources = <<>>

\* a strict query refused for want of confident sources, without a call of
\* the generator
C4_Witness ==
    /\ AnsweredInvalid
    /\ strict_mode
    /\ generator = "loaded"
    /\ out.llm_invocations = 0
    /\ out.result.answer = [kind |-> "refusal", body |-> "Insufficient confident sources"]

Doc(n, c) == [similarity |-> Sim(n, 10, 0), is_confident |-> c]

\* C5: _validate_retrieval accepts exactly the lists that are not empty, hold
\* at least min_confident_docs confident results and have a mean similarity
\* of at least the threshold; with 0.6 and 2, {0.9, 0.3} fails, {0.7, 0.8} passes
C5_ValidateRule ==
    out.op = "_validate_retrieval" =>
        /\ out.result[1] <=> RefValid(out.docs, [num |-> 6, den |-> 10])
        /\ out.docs = <<Doc(9, TRUE), Doc(3, FALSE)>> => ~out.result[1]
        /\ out.docs = <<Doc(7, TRUE), Doc(8, TRUE)>> => out.result[1]
        /\ out.result[1] <=> out.result[2] = "Valid"

\* enough confident results, but a mean similarity below the threshold
C5_Witness ==
    /\ out.op = "_validate_retrieval"
    /\ out.docs = <<Doc(7, TRUE), Doc(7, TRUE), Doc(3, FALSE)>>
    /\ out.result = <<FALSE, "Low average relevance score">>

Retrieved == out.op = "retrieve" /\ out.raised = ""

\* C6: retrieve(query, k) returns at most k results, in non-decreasing order
\* of distance and non-increasing order of similarity
C6_AtMostKSorted ==
    Retrieved =>
        /\ Len(out.results) <= out.k
        /\ \A i, j \in 1..Len(out.results) :
              i < j => /\ DistLE(out.results[i].distance, out.results[j].distance)
                       /\ ~SimGT(out.results[j].similarity, out.results[i].similarity)

\* an index of three entries answers k = 2 with two results of different distance
C6_Witness ==
    /\ Retrieved
    /\ Len(rag_index.vectors) = 3
    /\ out.k = 2
    /\ Len(out.results) = 2
    /\ out.results[1].distance # out.results[2].distance

Filtered == out.op = "_filter_relevant_results"

\* the place of the first candidate of the input with the URL of input[i]
FirstWithUrl(input, i) == CHOOSE j \in 1..i :
    /\ input[j].url = input[i].url
    /\ \A k \in 1..(j - 1) : input[k].url # input[i].url

Denylisted(url) == url.host \in {"pinterest.com", "youtube.com", "amazon.com", "ebay.com"}

\* C11: the list _filter_relevant_results returns holds no URL twice, each
\* candidate in it is the first of the input with its URL, and none has a
\* denylisted URL
C11_NoDuplicateNoDenylisted ==
    Filtered =>
        /\ \A i, j \in 1..Len(out.result) :
              i # j => out.result[i].url # out.result[j].url
        /\ \A i \in 1..Len(out.result) :
              \E j \in 1..Len(out.input) :
                  /\ out.input[j] = out.result[i]
                  /\ FirstWithUrl(out.input, j) = j
        /\ \A i \in 1..Len(out.result) : ~Denylisted(out.result[i].url)

\* an input with a URL twice and a denylisted URL, and the first of the two kept
C11_Witness ==
    /\ Filtered
    /\ Len(out.input) = 3
    /\ out.input[1].url = out.input[3].url /\ out.input[1] # out.input[3]
    /\ Denylisted(out.input[2].url)
    /\ out.result = <<out.input[1]>>

\* the places of the input that _filter_relevant_results is to return
Eligible(v, input) ==
    {i \in 1..Len(input) :
        /\ FirstWithUrl(input, i) = i
        /\ ~Denylisted(input[i].url)
        /\ RelevanceScore(v, input[i], PlantName) > 0}

\* C12: _filter_relevant_results returns exactly the first-of-their-URL,
\* non-denylisted candidates of the input with a score > 0, in non-increasing
\* order of score
C12_ExactlyPositiveSorted ==
    Filtered =>
        /\ Len(out.result) = Cardinality(Eligible(variant, out.input))
        /\ \A i \in Eligible(variant, out.input) :
              \E k \in 1..Len(out.result) : out.result[k] = out.input[i]
        /\ \A k \in 1..Len(out.result) :
              /\ RelevanceScore(variant, out.result[k], PlantName) > 0
              /\ \E i \in Eligible(variant, out.input) : out.result[k] = out.input[i]
        /\ \A i, j \in 1..Len(out.result) :
              i < j => RelevanceScore(variant, out.result[i], PlantName)
                         >= RelevanceScore(variant, out.result[j], PlantName)

\* a candidate of score 0 is dropped, and with it the later candidate of its
\* URL whose score is positive
C12_Witness ==
    /\ Filtered
    /\ Len(out.input) = 3
    /\ RelevanceScore(variant, out.input[1], PlantName) = 0
    /\ \E i \in 2..3 : /\ out.input[i].url = out.input[1].url
                         /\ RelevanceScore(variant, out.input[i], PlantName) > 0
    /\ Len(out.result) = 1


(***************************************************************************)
(* Further properties of the collection request.                           *)
(***************************************************************************)
\* how often r occurs in the list s
Occurrences(s, r) == Cardinality({i \in 1..Len(s) : s[i] = r})

\* the URLs of the accepted fetches, in the order of the fetches
RECURSIVE AcceptedUrls(_)
AcceptedUrls(tr) ==
    IF tr = <<>> THEN <<>>
    ELSE IF Head(tr).ev = "fetch" /\ Head(tr).outcome = "accepted"
    THEN <<Head(tr).url>> \o AcceptedUrls(Tail(tr))
    ELSE AcceptedUrls(Tail(tr))

\* C13: the step that ends the extract loop turns the accepted records into a
\* permutation of themselves, and the returned list is in non-increasing
\* order of _get_rag_sort_score of the metadata
C13_SortedPermutation ==
    /\ [][(pc = "extract" /\ pc' = "done") =>
             /\ Len(sources') = Len(sources)
             /\ \A r \in Range(sources) \cup Range(sources') :
                   Occurrences(sources', r) = Occurrences(sources, r)]_vars
    /\ [](pc = "done" =>
            /\ Len(sources) = Len(AcceptedUrls(trace))
            /\ \A i, j \in 1..Len(sources) :
                  i < j => _get_rag_sort_score(sources[i].metadata)
                             >= _get_rag_sort_score(sources[j].metadata))

\* a returned list whose order is not the order in which the records were accepted
C13_Witness ==
    /\ pc = "done"
    /\ Len(sources) >= 3
    /\ [i \in 1..Len(sources) |-> sources[i].metadata.url] # AcceptedUrls(trace)
    /\ \E i \in 1..(Len(sources) - 1) :
          _get_rag_sort_score(sources[i].metadata) > _get_rag_sort_score(sources[i + 1].metadata)


(***************************************************************************)
(* Properties of the article generation.                                   *)
(***************************************************************************)
\* C14: when every outbound request fails, collect_plant_sources returns the
\* empty list, and generate_full_article called with it raises nothing and
\* returns a document of five sections, each body the template of its
\* section with the subject name in it, without a query to the RAG system
C14_OfflineTemplateArticle ==
    /\ \A i \in 1..Len(trace) : trace[i].ev = "search" => trace[i].outcome = "failed"
    /\ pc = "done" => sources = <<>>
    /\ art_pc # "idle" => research_data = <<>>
    /\ art_pc # "raised"
    /\ \A i \in 1..Len(art_log) : art_log[i].ev # "query"
    /\ art_pc = "done" =>
          /\ document.returned
          /\ Len(document.body) = 5
          /\ \A i \in 1..5 :
                /\ document.body[i].name = SectionOrder[i]
                /\ document.body[i].body.kind = "template"
                /\ document.body[i].body.section = SectionOrder[i]
                /\ document.body[i].body.subject = <<"aloe", "ferox">>

\* the search and the image request failed, a RAG system was given, and the
\* article was returned
C14_Witness ==
    /\ pc = "done"
    /\ trace # <<>>
    /\ art_pc = "done"
    /\ gen.rag_system
    /\ art_log = <<ImageEvent("failed")>>
    /\ document.returned
    /\ Len(document.body) = 5

\* C15: when the language model is not loaded, or its call fails so that the
\* answer is the in-band error string, the body of the section is the
\* template with the subject name, never the error text, and the generation
\* raises nothing
C15_TemplateOnModelFailure ==
    /\ \A i \in 1..Len(sections) : sections[i].body.kind # "error"
    /\ \A i \in 1..Len(art_log) :
          art_log[i].outcome = "error" =>
              \E j \in 1..Len(sections) :
                  /\ sections[j].name = art_log[i].section
                  /\ sections[j].body.kind = "template"
    /\ generator = "None" =>
          /\ art_pc # "raised"
          /\ \A i \in 1..Len(sections) : sections[i].body.kind = "template"


(***************************************************************************)
(* Properties of _extract_generic_content.                                 *)
(***************************************************************************)
Extracted == out.op = "_extract_generic_content"

\* no selector selects an element of the page
NoSelection(page) == \A s \in 1..Len(page.selected) : page.selected[s] = <<>>

\* the paragraphs of the list that pass the length and content filters of the scan
Passing(paragraphs) == SelectSeq(paragraphs, LAMBDA e : e.len > 50 /\ e.content)

\* C16 as stated: with no selector matching and N >= 5 paragraphs passing the
\* filters, the result is the first min(N, 8) of them in document order
C16_FirstEightPassing ==
    (Extracted /\ NoSelection(out.page) /\ Len(Passing(out.page.paragraphs)) >= 5) =>
        out.result = SubSeq(Passing(out.page.paragraphs), 1,
                            IF Len(Passing(out.page.paragraphs)) <= 8
                            THEN Len(Passing(out.page.paragraphs)) ELSE 8)

\* C16 amended: with no selector matching and at least 5 paragraphs passing
\* the filters among the first 20 paragraphs of the page, the result is the
\* first 5 of them in document order
C16_FirstFivePassing ==
    (Extracted /\ NoSelection(out.page)) =>
        LET window == SubSeq(out.page.paragraphs, 1,
                             IF Len(out.page.paragraphs) <= 20
                             THEN Len(out.page.paragraphs) ELSE 20)
        IN IF Len(Passing(window)) >= 5
           THEN out.result = SubSeq(Passing(window), 1, 5)
           ELSE out.result = Passing(window)

\* six paragraphs pass the filters and the result holds the first five
C16_Witness ==
    /\ Extracted
    /\ NoSelection(out.page)
    /\ Len(Passing(out.page.paragraphs)) = 6
    /\ Len(out.result) = 5
    /\ out.result = SubSeq(Passing(out.page.paragraphs), 1, 5)


(***************************************************************************)
(* Properties of _get_reliability_level.                                   *)
(***************************************************************************)
\* the place of a level in the order low < medium < high < very_high
LevelRank(level) ==
    CASE level = "low" -> 0
      [] level = "medium" -> 1
      [] level = "high" -> 2
      [] level = "very_high" -> 3

\* C17: for two scores s1 <= s2 the level of s1 is never higher than the
\* level of s2, and the levels are the ones the thresholds 0.75, 0.85 and
\* 0.95 give
C17_LevelMonotone ==
    out.op = "_get_reliability_level" =>
        /\ out.s1 <= out.s2 => LevelRank(out.level1) <= LevelRank(out.level2)
        /\ LevelRank(out.level1) =
               (IF out.s1 >= 75 THEN 1 ELSE 0) + (IF out.s1 >= 85 THEN 1 ELSE 0)
                 + (IF out.s1 >= 95 THEN 1 ELSE 0)

\* a score below 0.95 and a score at 0.95: the level goes from high to very_high
C17_Witness ==
    /\ out.op = "_get_reliability_level"
    /\ out.s1 = 94 /\ out.s2 = 95
    /\ out.level1 = "high" /\ out.level2 = "very_high"


(***************************************************************************)
(* Properties of the result dictionaries of RAGSystem.query.               *)
(***************************************************************************)
\* C18: every result of query carries validation_passed, and the field is
\* false exactly when the retrieval did not pass validation
C18_ValidationPassedField ==
    Answered =>
        /\ "validation_passed" \in DOMAIN out.result
        /\ out.result.validation_passed
              = RefValid(out.result.retrieved_docs, confidence_threshold)


(***************************************************************************)
(* Properties of the queries of generate_full_article.                     *)
(***************************************************************************)
\* the calls of rag_system.query made so far, in the order made
SectionQueries == SelectSeq(art_log, LAMBDA e : e.ev = "query")

\* C19: with a RAG system and non-empty records, the queries issued are one
\* per section in the order introduction, facts, care, benefits, conclusion
\* (at any moment a start of that list), the returned document follows five
\* queries, and its headings stand in the same order after the front matter
C19_OneQueryPerSectionInOrder ==
    /\ Len(SectionQueries) <= Len(SectionOrder)
    /\ \A i \in 1..Len(SectionQueries) : SectionQueries[i].section = SectionOrder[i]
    /\ (art_pc = "done" /\ gen.rag_system /\ research_data # <<>>) =>
          /\ Len(SectionQueries) = 5
          /\ document.returned
          /\ gen.include_front_matter => Len(document.front_matter) = 1
          /\ [i \in 1..Len(document.body) |-> document.body[i].heading]
                = <<"Introduction", "Fascinating Facts", "Care & Cultivation",
                    "Benefits & Traditional Uses", "Conclusion">>

\* an article returned after five queries, under its front matter
C19_Witness ==
    /\ art_pc = "done"
    /\ gen.rag_system /\ research_data # <<>>
    /\ document.returned /\ document.front_matter # <<>>
    /\ Len(SectionQueries) = 5
    /\ SectionQueries[3].section = "care" /\ SectionQueries[5].section = "conclusion"
    /\ Len(document.body) = 5


(***************************************************************************)
(* Properties of the delays of a collection request.                       *)
(***************************************************************************)
\* an outbound network call: a search request or a candidate fetch
IsCall(e) == e.ev \in {"search", "fetch"}

\* C20 as stated: no two network calls of a collection request follow each
\* other without a sleep between them
C20_SleepBetweenAllCalls ==
    \A i \in 1..(Len(trace) - 1) : IsCall(trace[i]) => ~IsCall(trace[i + 1])

\* C20 amended: two search requests are separated by a sleep, every fetch is
\* followed by a sleep, and the only two calls with no sleep between them
\* are the last search request and the first fetch
C20_SleepBetweenSearchesAndAfterFetch ==
    /\ \A i \in 1..Len(trace) :
          /\ (trace[i].ev = "search" /\ trace[i].tier > 1) =>
                (i > 1 /\ trace[i - 1].ev = "sleep")
          /\ trace[i].ev = "fetch" =>
                (i < Len(trace) /\ trace[i + 1].ev = "sleep")
    /\ \A i \in 1..(Len(trace) - 1) :
          (IsCall(trace[i]) /\ IsCall(trace[i + 1])) =>
              /\ trace[i].ev = "search"
              /\ trace[i + 1].ev = "fetch"
              /\ \A j \in 1..Len(trace) :
                    /\ trace[j].ev = "search" => j <= i
                    /\ trace[j].ev = "fetch" => j > i

\* three searches with sleeps between them, then the first fetch straight
\* after the third search, a sleep, and the second fetch
C20_Witness ==
    /\ Len(trace) >= 8
    /\ [i \in 1..8 |-> trace[i].ev]
         = <<"search", "sleep", "search", "sleep", "search", "fetch", "sleep", "fetch">>


(***************************************************************************)
(* Properties of the final sort under two extraction orders.               *)
(***************************************************************************)
SortedBoth == out.op = "sort"

\* the place of a record in a list that holds it once
PlaceIn(list, rec) == CHOOSE i \in 1..Len(list) : list[i] = rec

\* sorted is list in non-increasing order of score, records of equal score
\* in the order they have in list
StableByScore(list, sorted) ==
    /\ Len(sorted) = Len(list)
    /\ {sorted[i] : i \in 1..Len(sorted)} = {list[i] : i \in 1..Len(list)}
    /\ \A i, j \in 1..Len(sorted) :
         i < j =>
           \/ _get_rag_sort_score(sorted[i].metadata) > _get_rag_sort_score(sorted[j].metadata)
           \/ /\ _get_rag_sort_score(sorted[i].metadata) = _get_rag_sort_score(sorted[j].metadata)
              /\ PlaceIn(list, sorted[i]) < PlaceIn(list, sorted[j])

\* no two records of the list have the same sort score
DistinctScores(list) ==
    \A i, j \in 1..Len(list) :
        i # j => _get_rag_sort_score(list[i].metadata) # _get_rag_sort_score(list[j].metadata)

\* C21 as stated: two runs that accept the same records in different
\* extraction orders return them in the same order
C21_OrderIndependentOfArrival == SortedBoth => out.sorted_a = out.sorted_b

\* C21 amended: each run returns its records in non-increasing order of sort
\* score with records of equal score in extraction order, so the two runs
\* return the same list when no two records have the same score
C21_OrderByScoreTiesByArrival ==
    SortedBoth =>
        /\ StableByScore(out.a, out.sorted_a)
        /\ StableByScore(out.b, out.sorted_b)
        /\ DistinctScores(out.a) => out.sorted_a = out.sorted_b

\* three records of different scores extracted in two different orders and
\* returned in one order that is neither of them
C21_Witness ==
    /\ SortedBoth
    /\ Len(out.a) = 3 /\ DistinctScores(out.a)
    /\ out.a # out.b
    /\ out.sorted_a = out.sorted_b
    /\ out.sorted_a # out.a /\ out.sorted_a # out.b


(***************************************************************************)
(* The reference for _extract_generic_content.                             *)
(***************************************************************************)
\* the content paragraphs a selector yields by itself
SelectorYield(page, s) ==
    SelectSeq(SubSeq(page.selected[s], 1,
                     IF Len(page.selected[s]) <= 10 THEN Len(page.selected[s]) ELSE 10),
              LAMBDA e : e.len > 40 /\ e.content)

\* the selectors that alone yield at least 3 content paragraphs
WinningSelectors(page) ==
    {s \in 1..Len(page.selected) : Len(SelectorYield(page, s)) >= 3}

\* the first winning selector supplies the whole content; without one the
\* content is that of the scan over the paragraphs
ReferenceContent(page) ==
    LET first == CHOOSE s \in WinningSelectors(page) :
                     \A t \in WinningSelectors(page) : s <= t
        parts == IF WinningSelectors(page) # {}
                 THEN SelectorYield(page, first)
                 ELSE ScanParagraphs(SubSeq(page.paragraphs, 1,
                                            IF Len(page.paragraphs) <= 20
                                            THEN Len(page.paragraphs) ELSE 20), <<>>)
    IN SubSeq(parts, 1, IF Len(parts) <= 8 THEN Len(parts) ELSE 8)

\* C22: the result of _extract_generic_content is the reference content: the
\* paragraphs of the first selector that alone yields 3 or more, else those
\* of the scan, and no paragraph twice
C22_MatchesReference ==
    Extracted =>
        /\ out.result = ReferenceContent(out.page)
        /\ \A i, j \in 1..Len(out.result) : i # j => out.result[i] # out.result[j]


(***************************************************************************)
(* Properties of the context that query hands to the language model.       *)
(***************************************************************************)
\* a query has gone on to generation
Generated == Answered /\ out.llm_invocations = 1

RECURSIVE ChunkTotal(_, _)
\* the length of the chunks of the first n documents
ChunkTotal(docs, n) ==
    IF n = 0 THEN 0 ELSE ChunkTotal(docs, n - 1) + ChunkLen(docs[n])

Exhausted == pc = "done" /\ pos > Len(search_results)

\* the records of the host carry is_south_african = true
MarkedSouthAfrican(h) ==
    \E i \in 1..Len(sources) :
        sources[i].metadata.domain = h /\ sources[i].metadata.is_south_african

\* C24: a domain whose records are marked is_south_african is refused
\* further extractions only at 5 accepted records, any other domain at 3
C24_MarkedDomainsGetHigherCap ==
    Exhausted =>
        \A h \in Hosts :
            (AcceptedOn(h) > 0 /\ Unattempted(h) # {}) =>
                AcceptedOn(h) = (IF MarkedSouthAfrican(h) THEN 5 ELSE 3)


(***************************************************************************)
(* Properties of the extraction attempts per domain.                       *)
(***************************************************************************)
\* the fetches of the trace issued against the host
AttemptsOn(h) == {i \in FetchEvents(trace) : Netloc(trace[i].url) = h}

\* the cap of the host in the extract loop
CapOf(h) == IF h \in {"up.ac.za", "herbs.co.za"} THEN 5 ELSE 3

\* C25 as stated: the fetches issued against a domain, failed ones included,
\* never exceed the cap of the domain
C25_AttemptsWithinCap ==
    \A h \in Hosts : Cardinality(AttemptsOn(h)) <= CapOf(h)

\* C25 amended: every fetch against a domain is issued while fewer records
\* of the domain than its cap have been accepted, so the fetches against a
\* domain exceed its cap by no more than the attempts that were not accepted
C25_AttemptsWithinCapPlusFailures ==
    \A h \in Hosts :
        /\ \A i \in AttemptsOn(h) :
             Cardinality({j \in AttemptsOn(h) : j < i /\ trace[j].outcome = "accepted"})
                < CapOf(h)
        /\ Cardinality(AttemptsOn(h))
             <= CapOf(h) + Cardinality({j \in AttemptsOn(h) : trace[j].outcome # "accepted"})

\* four fetches against www.sanbi.org, cap 3: one failed and three were accepted
C25_Witness ==
    /\ Cardinality(AttemptsOn("www.sanbi.org")) = 4
    /\ Cardinality({j \in AttemptsOn("www.sanbi.org") : trace[j].outcome = "accepted"}) = 3
    /\ \E j \in AttemptsOn("www.sanbi.org") : trace[j].outcome = "error"


(***************************************************************************)
(* Properties of retrieve when k exceeds the size of the index.            *)
(***************************************************************************)
\* C26: retrieve returns at most as many results as the index has entries,
\* no entry twice, and no placeholder (a result of distance FLT_MAX that no
\* entry of the index stands behind)
C26_NoPlaceholderNoRepeat ==
    Retrieved =>
        /\ Len(out.results) <= Len(rag_index.vectors)
        /\ \A i, j \in 1..Len(out.results) :
              i # j => out.results[i].text # out.results[j].text
        /\ \A i \in 1..Len(out.results) :
              /\ ~out.results[i].distance.max
              /\ out.results[i].distance = L2(Embed(out.results[i].text), Embed(out.question))


(***************************************************************************)
(* Properties of the context when a document is too long.                  *)
(***************************************************************************)
RECURSIVE ContextLen(_)
\* the length of the context string
ContextLen(context) ==
    IF context = <<>> THEN 0
    ELSE 33 + SourceLen(Head(context).source) + TextLen(Head(context).text)
         + ContextLen(Tail(context))

\* C27: a generated answer over at least one retrieved document has a
\* non-empty context that starts with the document of highest similarity,
\* and a document is left out only when it does not fit beside the chunks
\* of the context
C27_ContextNeverStarved ==
    (Generated /\ out.result.retrieved_docs # <<>>) =>
        LET docs == out.result.retrieved_docs
            context == out.result.context
        IN /\ context # <<>>
           /\ \A j \in 1..Len(docs) : ~SimGT(docs[j].similarity, context[1].similarity)
           /\ \A j \in 1..Len(docs) :
                (\A i \in 1..Len(context) : context[i].text # docs[j].text) =>
                    ContextLen(context) + ChunkLen(docs[j]) > max_context_length


(***************************************************************************)
(* Properties of is_supported_document.                                    *)
(***************************************************************************)
\* C28: a URL that ends in an unsupported extension is not classified as
\* supported and does not become a candidate
C28_UnsupportedNeverCandidate ==
    (out.op = "is_supported_document" /\ out.url.ext \in UnsupportedExtensions) =>
        /\ out.result[1] = FALSE
        /\ out.candidates = <<>>


(***************************************************************************)
(* Termination of the collection request.                                  *)
(***************************************************************************)
\* the sleeps of the trace that follow a fetch
DelaysAfterFetch == {i \in 2..Len(trace) : trace[i].ev = "sleep" /\ trace[i - 1].ev = "fetch"}

\* the loop goes over at most max_sources + 5 candidates, attempts each at
\* most once, and sleeps once after each attempt
AttemptsBounded ==
    /\ Len(search_results) <= max_sources + 5
    /\ pos <= Len(search_results) + 1
    /\ Cardinality(FetchEvents(trace)) <= pos - 1
    /\ Cardinality(FetchEvents(trace)) <= max_sources + 5
    /\ Cardinality(DelaysAfterFetch) = Cardinality(FetchEvents(trace))
    /\ \A i, j \in FetchEvents(trace) : i # j => trace[i].url # trace[j].url

\* C29: collect_plant_sources comes to its return in every run, after at
\* most max_sources + 5 extraction attempts and as many delays
C29_TerminatesWithinAttempts == []AttemptsBounded /\ <>(pc = "done")

\* a finished request whose candidate list was cut to max_sources + 5 and
\* whose loop made attempts that failed as well as attempts that were accepted
C29_Witness ==
    /\ pc = "done"
    /\ Len(results) > max_sources + 5
    /\ Len(search_results) = max_sources + 5
    /\ \E i \in FetchEvents(trace) : trace[i].outcome = "error"
    /\ \E i \in FetchEvents(trace) : trace[i].outcome = "accepted"


(***************************************************************************)
(* Properties of the list returned by search().                            *)
(***************************************************************************)
\* search() has returned its list
SearchReturned == pc = "returned" /\ out.op = "search"

\* nothing could be collected: no web source was accepted, no question was
\* answered, and Wikipedia has no page
NothingCollected ==
    /\ Len(out.result) = Len(out.asked) + 1
    /\ \A i \in 1..Len(out.asked) : out.asked[i] # "answered"
    /\ out.page = "missing"

\* C30: every record of the list returned by search() has a text longer
\* than 150 characters, and the list is empty when nothing could be collected
C30_ReturnedRecordsAccepted ==
    SearchReturned =>
        /\ \A i \in 1..Len(out.result) : out.result[i].text.len > 150
        /\ NothingCollected => out.result = <<>>

====
